---- MODULE Spec2Model ----
(***************************************************************************)
(* Model of the lance-code-rag indexing engine: the Merkle change          *)
(* detection (merkle.py), the LanceDB storage wrapper (storage.py), the    *)
(* chunker (chunker.py), the manifest (manifest.py) and the Indexer        *)
(* pipeline (indexer.py), together with the callers of run_index.          *)
(*                                                                         *)
(* Abstractions.                                                           *)
(*  - A relative path is the sequence of the pieces obtained by splitting  *)
(*    its text at every single-quote character, so <<"a.py">> is a.py and  *)
(*    <<"b.py", " OR filepath=", "a.py">> is the file name                 *)
(*    b.py' OR filepath='a.py and <<"a.py", ", ", "b.py">> is a.py', 'b.py *)
(*  - A file content is a sequence of lines, each line a one-line function *)
(*    definition named by the line; all lines have the same byte length.   *)
(*  - SHA-256 is an injective tagging of its argument.                     *)
(*  - In the pipeline (Spec, SpecConc) the project root directory holds    *)
(*    files only.  Scans of directories, symlinks, binary and excluded     *)
(*    files are modelled apart (SpecMerkle), where a directory entry name  *)
(*    and every SHA-256 input is a sequence of tagged pieces, so that the  *)
(*    concatenation hashed for a directory is computed as the code does.   *)
(*  - The staleness oracle (lance_code_mcp/server.py) compares the disk    *)
(*    with the manifest the server holds; in SpecServer another process    *)
(*    indexes while the server runs.                                       *)
(*  - The searcher (lance_code_mcp/search.py) and the tool surface         *)
(*    (lance_code_mcp/server.py) are modelled in SpecSearch: each request  *)
(*    is one step that leaves its response, or the exception it raised,    *)
(*    in `server.response`.  A query is the sequence of its characters;    *)
(*    the store returns rows in any order for a vector or a full-text      *)
(*    query; bm25_weight is held in hundredths and a Reciprocal Rank       *)
(*    Fusion score as an exact multiple of 1 / RrfUnit.                    *)
(*  - File edits are applied while no index run is active; a file is       *)
(*    created with mtime 1 (mtimes are only compared for equality, per     *)
(*    path).                                                               *)
(*  - The chunker on a syntax tree is modelled in SpecChunker: a file is   *)
(*    a nest of statements (def, class, if, simple), a def or a class may  *)
(*    have one decorator line, and a body is laid out one statement per    *)
(*    line; the text of a chunk is the lines its node spans.               *)
(*  - The terminal app (tui/app.py) is modelled in SpecTui: a command      *)
(*    worker or a selection handler is a task that runs from one await to  *)
(*    the next in one step; a widget is mounted when mount() is called     *)
(*    and gone when the awaited remove() returns; time is in seconds.      *)
(***************************************************************************)
EXTENDS Integers, Sequences, FiniteSets, Bags, TLC

\* ---------------------------------------------------------------- bounds
MaxEdits == 1
MaxRuns == 3
MaxDiskOps == 3
MaxRows == 3
MaxLimit == 2
MaxIndexRequests == 1
MaxNodes == 3
MaxWorkers == 2
MaxTime == 4

\* ---------------------------------------------------------------- inputs
PathA == <<"a.py">>
PathB == <<"b.py">>
PathC == <<"a.py", ", ", "b.py">>
PathQ == <<"b.py", " OR filepath=", "a.py">>
Paths == {PathA, PathB, PathC, PathQ}
\* sorted(path.iterdir()): a.py < a.py', 'b.py < b.py < b.py' OR filepath='a.py
PathOrder == <<PathA, PathC, PathB, PathQ>>

\* a line of bytes that are not UTF-8 (0xE9, say) and hold no NUL
Undecodable == "0xE9"

Contents == {<<>>, <<"f">>, <<"g">>, <<"f", "f">>, <<Undecodable>>}
Mtimes == {1, 2}

\* the callers of run_index: cli.index and LCRApp._run_indexing
Callers == {"cli", "tui"}

\* ------------------------------------------------------------- utilities
Range(s) == {s[i] : i \in DOMAIN s}

Perms(S) == {s \in [1..Cardinality(S) -> S] : \A i, j \in DOMAIN s : i # j => s[i] # s[j]}

SeqToBag(s) == [x \in Range(s) |-> Cardinality({i \in DOMAIN s : s[i] = x})]

BagKeep(B, Keep(_)) == [x \in {y \in DOMAIN B : Keep(y)} |-> B[x]]

\* ----------------------------------------------------------------- hasher
Sha256(x) == <<"sha256", x>>

ComputeFileHash(content) == Sha256(content)

ComputeDirectoryHash(children) ==
    Sha256({<<name, children[name].hash>> : name \in DOMAIN children})

FileSize(content) == Len(content)

\* ------------------------------------------------------------ merkle tree
NoNode == [type |-> "none"]

\* a file node whose hash covers the mtime as well
FileNodeHashingMtime(p, h, sz, mt) ==
    [type |-> "file", path |-> p, hash |-> Sha256(<<h, mt>>), size |-> sz, mtime |-> mt]

FileNode(p, h, sz, mt) ==
    [type |-> "file", path |-> p, hash |-> h, size |-> sz, mtime |-> mt]

DirNode(ch) ==
    [type |-> "directory", path |-> ".", hash |-> ComputeDirectoryHash(ch), children |-> ch]

\* the fast path of _build_node trusting the mtime alone
BuildFileNodeByMtime(files, p, previous) ==
    LET cur == files[p]
        prev == IF previous.type = "directory" /\ p \in DOMAIN previous.children
                THEN previous.children[p] ELSE NoNode
        reuse == prev.type = "file" /\ prev.mtime = cur.mtime
    IN FileNode(p, IF reuse THEN prev.hash ELSE ComputeFileHash(cur.content),
                FileSize(cur.content), cur.mtime)

BuildFileNode(files, p, previous) ==
    LET cur == files[p]
        prev == IF previous.type = "directory" /\ p \in DOMAIN previous.children
                THEN previous.children[p] ELSE NoNode
        reuse == /\ prev.type = "file"
                 /\ prev.mtime = cur.mtime
                 /\ prev.size = FileSize(cur.content)
    IN FileNode(p, IF reuse THEN prev.hash ELSE ComputeFileHash(cur.content),
                FileSize(cur.content), cur.mtime)

BuildTree(files, previous) ==
    IF DOMAIN files = {} THEN NoNode
    ELSE DirNode([p \in DOMAIN files |-> BuildFileNode(files, p, previous)])

CollectAllFiles(node) ==
    IF node.type = "directory"
    THEN SelectSeq(PathOrder, LAMBDA p : p \in DOMAIN node.children)
    ELSE <<>>

EmptyDiff == [new |-> <<>>, modified |-> <<>>, deleted |-> <<>>]

\* _compare_nodes without the hash comparisons: every common file is modified
CompareNodesNoHash(old, new) ==
    LET oldNames == DOMAIN old.children
        newNames == DOMAIN new.children
    IN {[new |-> n, modified |-> m, deleted |-> d] :
           n \in Perms(newNames \ oldNames),
           m \in Perms(oldNames \cap newNames),
           d \in Perms(oldNames \ newNames)}

\* _compare_nodes collecting every entry of the new directory as new
CompareNodesOverlap(old, new) ==
    IF old.hash = new.hash THEN {EmptyDiff}
    ELSE LET oldNames == DOMAIN old.children
             newNames == DOMAIN new.children
             changed == {p \in oldNames \cap newNames :
                            old.children[p].hash # new.children[p].hash}
         IN {[new |-> n, modified |-> m, deleted |-> d] :
                n \in Perms(newNames),
                m \in Perms(changed),
                d \in Perms(oldNames \ newNames)}

\* _compare_nodes iterates Python sets, so each list comes in any order
CompareNodes(old, new) ==
    IF old.hash = new.hash THEN {EmptyDiff}
    ELSE LET oldNames == DOMAIN old.children
             newNames == DOMAIN new.children
             changed == {p \in oldNames \cap newNames :
                            old.children[p].hash # new.children[p].hash}
         IN {[new |-> n, modified |-> m, deleted |-> d] :
                n \in Perms(newNames \ oldNames),
                m \in Perms(changed),
                d \in Perms(oldNames \ newNames)}

Compare(old, new) ==
    IF old = NoNode /\ new = NoNode THEN {EmptyDiff}
    ELSE IF old = NoNode THEN {[EmptyDiff EXCEPT !.new = CollectAllFiles(new)]}
    ELSE IF new = NoNode THEN {[EmptyDiff EXCEPT !.deleted = CollectAllFiles(old)]}
    ELSE CompareNodes(old, new)

HasChanges(diff) == diff.new # <<>> \/ diff.modified # <<>> \/ diff.deleted # <<>>

CountFiles(tree) == IF tree.type = "directory" THEN Cardinality(DOMAIN tree.children) ELSE 0

\* ------------------------------------------- merkle trees over directories
\* The byte strings fed to SHA-256 and the entry names are sequences of
\* tokens: a text token, or the 64 hex digits of a hash.
Txt(text) == <<"txt", text>>

Hex(hash) == <<"hex", hash>>

NameA == <<Txt("a.py")>>
NameB == <<Txt("b.py")>>
NameD == <<Txt("d")>>
NameN == <<Txt("n.txt")>>
NameX == <<Txt("node_modules")>>
\* the name of the project directory, unless it is renamed
NameP == <<Txt("proj")>>
\* the file name a.py<sha256 of the bytes f>b.py
NameH == <<Txt("a.py"), Hex(Sha256(<<Txt("f")>>)), Txt("b.py")>>

\* sorted(): a.py < a.py<hex>b.py < b.py < d < n.txt < node_modules
NameOrder == <<NameA, NameH, NameB, NameD, NameN, NameX>>

Names == Range(NameOrder)

RootPath == <<>>

\* the places of the bounded disks: files, directories, symlinks
FilePlaces == {<<NameA>>, <<NameB>>, <<NameH>>, <<NameN>>, <<NameD, NameA>>,
               <<NameA, NameB>>, <<NameX, NameA>>}
DirPlaces == {<<NameA>>, <<NameD>>, <<NameX>>}
LinkPlaces == {<<NameB>>, <<NameD>>}

Nul == Txt("NUL")

DiskContents == {<<Txt("f")>>, <<Txt("g")>>, <<Nul>>}

Extensions == {".py"}

ExcludePatterns == {"node_modules"}

Sorted(S) == SelectSeq(NameOrder, LAMBDA n : n \in S)

RECURSIVE Flatten(_)
Flatten(seqs) == IF seqs = <<>> THEN <<>> ELSE Head(seqs) \o Flatten(Tail(seqs))

Parent(path) == SubSeq(path, 1, Len(path) - 1)

Basename(path) == path[Len(path)]

\* path.suffix of the bounded names
Suffix(name) ==
    LET last == name[Len(name)]
    IN IF last \in {Txt("a.py"), Txt("b.py")} THEN ".py"
       ELSE IF last = Txt("n.txt") THEN ".txt" ELSE ""

ShouldExclude(name) == \E pattern \in ExcludePatterns : name = <<Txt(pattern)>>

\* is_binary_file: a NUL byte in the bytes read, or the read fails
IsBinaryFile(e) == ~e.readable \/ Nul \in Range(e.content)

\* compute_directory_hash over the child names alone
HashDirectoryOfNames(children) == Sha256(Flatten(Sorted(DOMAIN children)))

HashDirectory(children) ==
    Sha256(Flatten([i \in DOMAIN Sorted(DOMAIN children) |->
                       Sorted(DOMAIN children)[i]
                           \o <<Hex(children[Sorted(DOMAIN children)[i]].hash)>>]))

DirectoryNode(p, ch) ==
    [type |-> "directory", path |-> p, hash |-> HashDirectory(ch), children |-> ch]

\* previous_nodes.get(relative_path), for a tree whose nodes sit at their paths
RECURSIVE NodeAt(_, _)
NodeAt(node, path) ==
    IF path = <<>> THEN node
    ELSE IF node.type = "directory" /\ Head(path) \in DOMAIN node.children
         THEN NodeAt(node.children[Head(path)], Tail(path))
         ELSE NoNode

\* path.iterdir()
ChildNames(disk, path) == {n \in Names : Append(path, n) \in DOMAIN disk}

RECURSIVE BuildNode(_, _, _)
BuildNode(disk, path, previous) ==
    LET e == disk[path]
    IN IF ShouldExclude(IF path = RootPath THEN e.name ELSE Basename(path)) THEN NoNode
       ELSE IF e.kind = "symlink" THEN NoNode
       ELSE IF e.kind = "file"
       THEN IF Suffix(Basename(path)) \notin Extensions THEN NoNode
            ELSE IF IsBinaryFile(e) THEN NoNode
            ELSE LET prev == NodeAt(previous, path)
                     reuse == /\ prev.type = "file"
                              /\ prev.mtime = e.mtime
                              /\ prev.size = FileSize(e.content)
                 IN FileNode(path, IF reuse THEN prev.hash ELSE ComputeFileHash(e.content),
                             FileSize(e.content), e.mtime)
       ELSE LET built == [n \in ChildNames(disk, path) |->
                             BuildNode(disk, Append(path, n), previous)]
                kept == {n \in DOMAIN built : built[n] # NoNode}
            IN IF kept = {} THEN NoNode
               ELSE DirectoryNode(path, [n \in kept |-> built[n]])

\* MerkleTree.build
Build(disk, previous) == BuildNode(disk, RootPath, previous)

\* _collect_all_files; the children are taken in sorted name order
RECURSIVE CollectFilesUnder(_)
CollectFilesUnder(node) ==
    IF node = NoNode THEN <<>>
    ELSE IF node.type = "file" THEN <<node.path>>
    ELSE Flatten([i \in DOMAIN Sorted(DOMAIN node.children) |->
                     CollectFilesUnder(node.children[Sorted(DOMAIN node.children)[i]])])

MergeDiffs(diffs) ==
    [new |-> Flatten([i \in DOMAIN diffs |-> diffs[i].new]),
     modified |-> Flatten([i \in DOMAIN diffs |-> diffs[i].modified]),
     deleted |-> Flatten([i \in DOMAIN diffs |-> diffs[i].deleted])]

\* _compare_nodes; the name sets are taken in sorted order (Python iterates
\* them in an unspecified order, which permutes the lists)
RECURSIVE CompareSubtrees(_, _)
CompareSubtrees(old, new) ==
    IF old.hash = new.hash THEN EmptyDiff
    ELSE IF old.type = "file" /\ new.type = "file"
    THEN [EmptyDiff EXCEPT !.modified = <<new.path>>]
    ELSE IF old.type # new.type
    THEN [new |-> CollectFilesUnder(new), modified |-> <<>>,
          deleted |-> CollectFilesUnder(old)]
    ELSE LET oldNames == DOMAIN old.children
             newNames == DOMAIN new.children
             added == Sorted(newNames \ oldNames)
             removed == Sorted(oldNames \ newNames)
             both == Sorted(oldNames \cap newNames)
         IN MergeDiffs(
               <<[EmptyDiff EXCEPT
                     !.new = Flatten([i \in DOMAIN added |->
                                         CollectFilesUnder(new.children[added[i]])]),
                     !.deleted = Flatten([i \in DOMAIN removed |->
                                             CollectFilesUnder(old.children[removed[i]])])]>>
               \o [i \in DOMAIN both |->
                      CompareSubtrees(old.children[both[i]], new.children[both[i]])])

\* MerkleTree.compare reporting every file of the new tree as new
CompareTreesAllNew(old, new) == [EmptyDiff EXCEPT !.new = CollectFilesUnder(new)]

\* MerkleTree.compare
CompareTrees(old, new) ==
    IF old = NoNode /\ new = NoNode THEN EmptyDiff
    ELSE IF old = NoNode THEN [EmptyDiff EXCEPT !.new = CollectFilesUnder(new)]
    ELSE IF new = NoNode THEN [EmptyDiff EXCEPT !.deleted = CollectFilesUnder(old)]
    ELSE CompareSubtrees(old, new)

\* ---------------------------------------------------------------- chunker
\* Path.read_text() decodes the bytes; it raises UnicodeDecodeError otherwise
ReadText(content) ==
    IF Undecodable \in Range(content) THEN "UnicodeDecodeError" ELSE "ok"

\* a line that defines nothing
Assignment == "x = 1"

RECURSIVE JoinLines(_)
JoinLines(content) ==
    IF Len(content) = 1 THEN content[1]
    ELSE content[1] \o "\n" \o JoinLines(Tail(content))

\* chunk_file on a .py file: a chunk per definition, or the module chunk
\* named "" when the file defines nothing
ChunkFile(content) ==
    LET defs == SelectSeq([i \in 1..Len(content) |-> i], LAMBDA i : content[i] # Assignment)
    IN IF content # <<>> /\ defs = <<>>
       THEN <<[text |-> JoinLines(content), type |-> "module", name |-> "",
               start_line |-> 1, end_line |-> Len(content)]>>
       ELSE [k \in DOMAIN defs |->
               [text |-> content[defs[k]], type |-> "function", name |-> content[defs[k]],
                start_line |-> defs[k], end_line |-> defs[k]]]

ContentHash(chunk) == Sha256(chunk.text)

\* ---------------------------------------------------------------- storage
\* the text between two string literals of a filter that keeps it well formed
OrFilepathEq == " OR filepath="

\* f"filepath = '{filepath}'" is a well-formed predicate
FilepathFilterParses(filepath) ==
    /\ Len(filepath) % 2 = 1
    /\ \A i \in DOMAIN filepath : i % 2 = 0 => filepath[i] = OrFilepathEq

\* the rows selected by f"filepath = '{filepath}'"
FilepathFilterMatches(row, filepath) ==
    \E i \in DOMAIN filepath : i % 2 = 1 /\ row.filepath = <<filepath[i]>>

DeleteChunksByFilepath(table, filepath) ==
    IF FilepathFilterParses(filepath)
    THEN BagKeep(table, LAMBDA row : ~FilepathFilterMatches(row, filepath))
    ELSE table

RECURSIVE DeleteChunksByFilepaths(_, _)
DeleteChunksByFilepaths(table, filepaths) ==
    IF filepaths = <<>> THEN [table |-> table, deleted |-> 0]
    ELSE LET after == DeleteChunksByFilepath(table, Head(filepaths))
             rest == DeleteChunksByFilepaths(after, Tail(filepaths))
         IN [table |-> rest.table,
             deleted |-> (BagCardinality(table) - BagCardinality(after)) + rest.deleted]

ChunkId(filepath, start_line) == <<filepath, ":", start_line>>

\* the text between two string literals of an IN list
ListSeparator == ", "

\* f"id IN ('{id}', ...)" is a well-formed predicate: the quotes of every id
\* pair up and what stands between two literals separates list items
IdFilterParses(code_chunks) ==
    \A k \in DOMAIN code_chunks :
        LET filepath == code_chunks[k].filepath
        IN /\ Len(filepath) % 2 = 1
           /\ \A i \in DOMAIN filepath : i % 2 = 0 => filepath[i] = ListSeparator

\* the rows selected by f"id IN ('{id}', ...)": the last literal of an id is
\* its last piece followed by ":start_line"; the literals before it hold no
\* ":start_line" and equal no id
IdFilterMatches(row, code_chunks) ==
    \E k \in DOMAIN code_chunks :
        LET filepath == code_chunks[k].filepath
        IN row.id = ChunkId(<<filepath[Len(filepath)]>>, code_chunks[k].start_line)

DeleteByIds(table, code_chunks) ==
    BagKeep(table, LAMBDA row : ~IdFilterMatches(row, code_chunks))

UpsertChunks(table, code_chunks) ==
    IF code_chunks = <<>> THEN table
    ELSE DeleteByIds(table, code_chunks) (+) SeqToBag(code_chunks)

GetAllFilepaths(table) == {row.filepath : row \in BagToSet(table)}

CountChunks(table) == BagCardinality(table)

GetCachedEmbeddings(cacheTable, content_hashes) ==
    {e.content_hash : e \in BagToSet(cacheTable)} \cap content_hashes

\* cache_embeddings that rewrites the table with the new entries
CacheEmbeddingsRewrite(cacheTable, entries) == SeqToBag(entries)

CacheEmbeddings(cacheTable, entries) ==
    IF entries = <<>> THEN cacheTable
    ELSE BagKeep(cacheTable,
                 LAMBDA e : \A i \in DOMAIN entries : e.content_hash # entries[i].content_hash)
         (+) SeqToBag(entries)

ClearAll(table) == EmptyBag

\* --------------------------------------------------------------- manifest
CreateEmptyManifest(now) ==
    [version |-> 1, created_at |-> now, updated_at |-> now, tree |-> NoNode,
     stats |-> [total_files |-> 0, total_chunks |-> 0]]

\* no manifest.json: load_manifest returns None
NoManifest == [version |-> 0]

SaveManifest(m, now) == [m EXCEPT !.updated_at = now]

\* ---------------------------------------------------------------- indexer
ZeroStats ==
    [files_scanned |-> 0, files_new |-> 0, files_modified |-> 0, files_deleted |-> 0,
     chunks_added |-> 0, chunks_deleted |-> 0, embeddings_computed |-> 0,
     embeddings_cached |-> 0]

NoFile == [content |-> <<>>, file_hash |-> Sha256(<<>>)]

IdleRun ==
    [pc |-> "idle", force |-> FALSE, new_tree |-> NoNode, diff |-> EmptyDiff,
     i |-> 0, stats |-> ZeroStats, cur |-> NoFile]

FilesToProcess(diff) == diff.new \o diff.modified

CodeChunks(filepath, content, file_hash) ==
    LET cs == ChunkFile(content)
    IN [k \in DOMAIN cs |->
          [id |-> ChunkId(filepath, cs[k].start_line), text |-> cs[k].text,
           content_hash |-> ContentHash(cs[k]), filepath |-> filepath,
           type |-> cs[k].type, name |-> cs[k].name,
           start_line |-> cs[k].start_line, end_line |-> cs[k].end_line,
           file_hash |-> file_hash]]

\* _embed_chunks_with_cache that never consults the cache
ToEmbedNoCache(cacheTable, cs) == cs

\* _embed_chunks_with_cache: the chunks to embed and the cache entries written
ToEmbed(cacheTable, cs) ==
    LET hit == GetCachedEmbeddings(cacheTable, {ContentHash(cs[k]) : k \in DOMAIN cs})
    IN SelectSeq(cs, LAMBDA c : ContentHash(c) \notin hit)

CacheEntries(to_embed, now) ==
    [k \in DOMAIN to_embed |-> [content_hash |-> ContentHash(to_embed[k]), created_at |-> now]]

UpdateManifest(m, tree, stats, table, now) ==
    SaveManifest([m EXCEPT !.tree = tree,
                           !.stats = [total_files |-> stats.files_scanned,
                                      total_chunks |-> CountChunks(table)]], now)

\* ------------------------------------------------------------------ state
VARIABLES
    fs,        \* the project's files: path -> [content, mtime]
    manifest,  \* manifest.json
    chunks,    \* the code_chunks table, a bag of rows
    cache,     \* the embedding_cache table, a bag of entries
    run,       \* per caller: the position and locals of its Indexer.index()
    clock,     \* datetime.now(), advanced when a run starts
    edits,     \* number of file edits made
    hist,      \* per caller: what its run found when it started, and its store log
    last,      \* how the latest ended run ended, and whether a file changed since
    aborted,   \* some run since `init` was interrupted or failed
    is_initialized,  \* the .lance-code-rag directory exists
    merkle,    \* a directory tree on disk, its previous scan and the disk then
    server,    \* the MCP server: its store handles and the response in flight
    chunker,   \* a source file, its syntax tree and the chunks made of it
    tui        \* the terminal app: its widgets, its flow and its tasks

vars ==
    <<fs, manifest, chunks, cache, run, clock, edits, hist, last, aborted, is_initialized, merkle,
      server, chunker, tui>>

NoHist ==
    [manifest |-> CreateEmptyManifest(0), chunks |-> EmptyBag, cache |-> EmptyBag,
     after |-> "none", log |-> <<>>]

NoFiles == [p \in {} |-> NoFile]

InitialTrees ==
    {NoFiles,
     [p \in {PathA, PathB} |->
        [content |-> IF p = PathA THEN <<"f">> ELSE <<"f", "f">>, mtime |-> 1]],
     [p \in {PathA, PathQ} |->
        [content |-> IF p = PathA THEN <<"g">> ELSE <<>>, mtime |-> 1]],
     [p \in {PathC} |-> [content |-> <<"f">>, mtime |-> 1]]}

\* the project directory, with its own name
RootDir(name) == [kind |-> "dir", name |-> name]

RootOnly == [p \in {RootPath} |-> RootDir(NameP)]

NoScan == [disk |-> RootOnly, previous |-> NoNode, scanned |-> RootOnly, ops |-> 0]

\* no request in flight
NoResponse ==
    [op |-> "none", args |-> <<>>, raised |-> "none", message |-> "", search_type |-> "",
     results |-> <<>>, calls |-> <<>>, fetch_k |-> 0, vector_results |-> <<>>,
     fts_results |-> <<>>, warning |-> "None", data |-> <<>>]

\* a server that has opened no table and built no full-text index
NoServer ==
    [manifest |-> CreateEmptyManifest(0), chunks_table |-> FALSE,
     fts_text_index_created |-> FALSE, response |-> NoResponse]

\* no source file handed to the chunker
NoChunker == [source |-> <<>>, content |-> <<>>, chunks |-> <<>>, chunked |-> FALSE]

\* no task of the terminal app
NoTask == [code |-> "none", pc |-> "done", value |-> "", widget |-> "none"]

\* no Ctrl+C handled yet
NoInterrupt == [text |-> <<>>, at |-> 0, ctrl_c_time |-> 0, timer |-> FALSE, outcome |-> "none"]

\* self._flow_state = {}
NoFlow == [flow |-> "None", step |-> "None"]

\* time.monotonic() when the app starts: the seconds since boot
Uptime == 2

\* LCRApp.__init__ and compose: the search input at the bottom, no flow
NoTui ==
    [input |-> TRUE, text |-> <<>>, selector |-> "none", current_bottom_app |-> "Input",
     flow_state |-> NoFlow, is_initialized |-> TRUE, workers |-> <<>>, handler |-> NoTask,
     ctrl_c_time |-> 0, ctrl_c_timer |-> FALSE, timer_set |-> 0, now |-> Uptime,
     exited |-> FALSE, raised |-> "none", interrupt |-> NoInterrupt]

\* the state left by `lcr init`: an empty manifest, no tables
Init ==
    /\ merkle = NoScan
    /\ server = NoServer
    /\ chunker = NoChunker
    /\ tui = NoTui
    /\ fs \in InitialTrees
    /\ manifest = CreateEmptyManifest(0)
    /\ chunks = EmptyBag
    /\ cache = EmptyBag
    /\ run = [r \in Callers |-> IdleRun]
    /\ clock = 0
    /\ edits = 0
    /\ hist = [r \in Callers |-> NoHist]
    /\ last = "none"
    /\ aborted = FALSE
    /\ is_initialized = TRUE

AllIdle == \A r \in Callers : run[r].pc = "idle"

\* ------------------------------------------------------------ file edits
WriteFile(p, content, mtime) ==
    /\ AllIdle
    /\ edits < MaxEdits
    /\ IF p \in DOMAIN fs THEN fs[p] # [content |-> content, mtime |-> mtime] ELSE mtime = 1
    /\ fs' = [q \in DOMAIN fs \cup {p} |->
                IF q = p THEN [content |-> content, mtime |-> mtime] ELSE fs[q]]
    /\ edits' = edits + 1
    /\ last' = "edited"
    /\ UNCHANGED <<manifest, chunks, cache, run, clock, hist, aborted, is_initialized, merkle, server, chunker, tui>>

RemoveFile(p) ==
    /\ AllIdle
    /\ edits < MaxEdits
    /\ p \in DOMAIN fs
    /\ fs' = [q \in DOMAIN fs \ {p} |-> fs[q]]
    /\ edits' = edits + 1
    /\ last' = "edited"
    /\ UNCHANGED <<manifest, chunks, cache, run, clock, hist, aborted, is_initialized, merkle, server, chunker, tui>>

\* os.rename: the file keeps its content and its mtime
MoveFile(p, q) ==
    /\ AllIdle
    /\ edits < MaxEdits
    /\ p \in DOMAIN fs
    /\ q \notin DOMAIN fs
    /\ fs' = [x \in (DOMAIN fs \ {p}) \cup {q} |-> IF x = q THEN fs[p] ELSE fs[x]]
    /\ edits' = edits + 1
    /\ last' = "edited"
    /\ UNCHANGED <<manifest, chunks, cache, run, clock, hist, aborted, is_initialized, merkle, server, chunker, tui>>

\* --------------------------------------------------------- Indexer.index
\* _get_changes: load the manifest, scan the tree, compute the diff
GetChanges(r, force) ==
    /\ is_initialized
    /\ run[r].pc = "idle"
    /\ clock < MaxRuns
    /\ LET old_tree == manifest.tree
           new_tree == BuildTree(fs, IF force THEN NoNode ELSE old_tree)
       IN \E diff \in (IF force \/ old_tree = NoNode
                       THEN {[EmptyDiff EXCEPT !.new = CollectAllFiles(new_tree)]}
                       ELSE Compare(old_tree, new_tree)) :
            run' = [run EXCEPT ![r] = [IdleRun EXCEPT !.pc = "scanned", !.force = force,
                                                     !.new_tree = new_tree, !.diff = diff]]
    /\ clock' = clock + 1
    /\ hist' = [hist EXCEPT ![r] = [manifest |-> manifest, chunks |-> chunks,
                                    cache |-> cache, after |-> last, log |-> <<>>]]
    /\ last' = "running"
    /\ UNCHANGED <<fs, manifest, chunks, cache, edits, aborted, is_initialized, merkle, server, chunker, tui>>

Advance(rec) ==
    IF rec.i + 1 > Len(FilesToProcess(rec.diff))
    THEN [rec EXCEPT !.pc = "manifest", !.i = rec.i + 1, !.cur = NoFile]
    ELSE [rec EXCEPT !.pc = "process", !.i = rec.i + 1, !.cur = NoFile]

\* index(), lines 98-111: clear on force, fill the file counters
ClearAndCount(r) ==
    /\ run[r].pc = "scanned"
    /\ chunks' = IF run[r].force THEN ClearAll(chunks) ELSE chunks
    /\ LET d == run[r].diff
           st == [ZeroStats EXCEPT !.files_scanned = CountFiles(run[r].new_tree),
                                   !.files_new = Len(d.new),
                                   !.files_modified = Len(d.modified),
                                   !.files_deleted = Len(d.deleted)]
       IN run' = [run EXCEPT ![r] = [@ EXCEPT !.stats = st,
                     !.pc = IF HasChanges(d) THEN "deleted" ELSE "manifest"]]
    /\ hist' = [hist EXCEPT ![r].log = IF run[r].force THEN Append(@, <<"clear">>) ELSE @]
    /\ UNCHANGED <<fs, manifest, cache, clock, edits, last, aborted, is_initialized, merkle, server, chunker, tui>>

\* index(), lines 124-127: remove the rows of the deleted files
DeleteDeleted(r) ==
    /\ run[r].pc = "deleted"
    /\ LET d == DeleteChunksByFilepaths(chunks, run[r].diff.deleted)
       IN /\ chunks' = d.table
          /\ run' = [run EXCEPT ![r] =
                        Advance([@ EXCEPT !.stats.chunks_deleted = d.deleted])]
    /\ hist' = [hist EXCEPT ![r].log =
                   @ \o [k \in DOMAIN run[r].diff.deleted |-> <<"delete", run[r].diff.deleted[k]>>]]
    /\ UNCHANGED <<fs, manifest, cache, clock, edits, last, aborted, is_initialized, merkle, server, chunker, tui>>

\* the end of a run: its locals and its log are dropped
EndRun(r, how) ==
    /\ run' = [run EXCEPT ![r] = IdleRun]
    /\ hist' = [hist EXCEPT ![r] = NoHist]
    /\ last' = how
    /\ aborted' = (aborted \/ how \in {"interrupted", "failed"})

\* _process_file, lines 203-223: read, hash, delete the file's rows, chunk;
\* only OSError is caught, so bytes that do not decode raise out of index()
ProcessFileDelete(r) ==
    /\ run[r].pc = "process"
    /\ LET filepath == FilesToProcess(run[r].diff)[run[r].i]
       IN IF filepath \notin DOMAIN fs
          THEN \* OSError: the file is skipped
               /\ run' = [run EXCEPT ![r] = Advance(@)]
               /\ hist' = [hist EXCEPT ![r].log = Append(@, <<"skip", filepath>>)]
               /\ UNCHANGED <<chunks, last, aborted>>
          ELSE IF ReadText(fs[filepath].content) # "ok"
          THEN /\ EndRun(r, "failed")
               /\ UNCHANGED chunks
          ELSE LET content == fs[filepath].content
               IN /\ chunks' = DeleteChunksByFilepath(chunks, filepath)
                  /\ hist' = [hist EXCEPT ![r].log = Append(@, <<"replace", filepath>>)]
                  /\ run' = [run EXCEPT ![r] =
                        IF ChunkFile(content) = <<>> THEN Advance(@)
                        ELSE [@ EXCEPT !.pc = "upsert",
                                       !.cur = [content |-> content,
                                                file_hash |-> ComputeFileHash(content)]]]
                  /\ UNCHANGED <<last, aborted>>
    /\ UNCHANGED <<fs, manifest, cache, clock, edits, is_initialized, merkle, server, chunker, tui>>

\* _process_file, lines 226-249: embed through the cache, store the chunks;
\* an ill-formed id filter makes _delete_by_ids raise out of index()
ProcessFileUpsert(r) ==
    /\ run[r].pc = "upsert"
    /\ LET filepath == FilesToProcess(run[r].diff)[run[r].i]
           cs == ChunkFile(run[r].cur.content)
           to_embed == ToEmbed(cache, cs)
           code_chunks == CodeChunks(filepath, run[r].cur.content, run[r].cur.file_hash)
       IN /\ cache' = CacheEmbeddings(cache, CacheEntries(to_embed, clock))
          /\ IF IdFilterParses(code_chunks)
             THEN /\ chunks' = UpsertChunks(chunks, code_chunks)
                  /\ run' = [run EXCEPT ![r] = Advance(
                        [@ EXCEPT !.stats.chunks_added = @ + Len(code_chunks),
                                  !.stats.embeddings_computed = @ + Len(to_embed),
                                  !.stats.embeddings_cached = @ + (Len(cs) - Len(to_embed))])]
                  /\ hist' = [hist EXCEPT ![r].log = Append(@, <<"upsert", filepath>>)]
                  /\ UNCHANGED <<last, aborted>>
             ELSE /\ EndRun(r, "failed")
                  /\ UNCHANGED chunks
    /\ UNCHANGED <<fs, manifest, clock, edits, is_initialized, merkle, server, chunker, tui>>

\* _update_manifest and return
WriteManifest(r) ==
    /\ run[r].pc = "manifest"
    /\ manifest' = UpdateManifest(manifest, run[r].new_tree, run[r].stats, chunks, clock)
    /\ EndRun(r, IF run[r].force THEN "forced" ELSE "indexed")
    /\ UNCHANGED <<fs, chunks, cache, clock, edits, is_initialized, merkle, server, chunker, tui>>

\* run_index whose finally block also saves the manifest
InterruptSaving(r) ==
    /\ run[r].pc # "idle"
    /\ manifest' = UpdateManifest(manifest, run[r].new_tree, run[r].stats, chunks, clock)
    /\ EndRun(r, "interrupted")
    /\ UNCHANGED <<fs, chunks, cache, clock, edits, is_initialized, merkle, server, chunker, tui>>

\* run_index, lines 360-364: the run is cancelled or killed; only close() runs
Interrupt(r) ==
    /\ run[r].pc # "idle"
    /\ EndRun(r, "interrupted")
    /\ UNCHANGED <<fs, manifest, chunks, cache, clock, edits, is_initialized, merkle, server, chunker, tui>>

\* ------------------------------------------------------ staleness oracle
StalenessInfo(is_stale, stale_files, message) ==
    [is_stale |-> is_stale, stale_files |-> stale_files, message |-> message]

\* check_staleness on a ServerState holding the manifest m as it is on disk;
\* the answers it can give, one for each order of the diff lists
CheckStaleness(m, files) ==
    IF m = NoManifest \/ m.tree = NoNode
    THEN {StalenessInfo(TRUE, <<>>, "No index found. Run 'lcm index' or use index_codebase tool.")}
    ELSE LET old_tree == m.tree
             new_tree == BuildTree(files, old_tree)
         IN IF new_tree # NoNode /\ old_tree.hash = new_tree.hash
            THEN {StalenessInfo(FALSE, <<>>, "Index is up to date.")}
            ELSE {LET stale_files == diff.new \o diff.modified \o diff.deleted
                  IN StalenessInfo(TRUE, stale_files,
                        "Index is stale. " \o ToString(Len(stale_files))
                            \o " file(s) changed since last index.") :
                     diff \in Compare(old_tree, new_tree)}

\* the "warning" of search_code_impl and fuzzy_find_impl
SearchWarning(staleness) == IF staleness.is_stale THEN staleness.message ELSE "None"

\* ------------------------------------------------------- clean and init
\* cli.clean that removes the chunk table only
CleanKeepingCache ==
    /\ is_initialized
    /\ AllIdle
    /\ is_initialized' = FALSE
    /\ manifest' = NoManifest
    /\ chunks' = EmptyBag
    /\ last' = "cleaned"
    /\ aborted' = FALSE
    /\ UNCHANGED <<fs, cache, run, clock, edits, hist, merkle, server, chunker, tui>>

\* cli.clean, LCRApp._handle_clean: shutil.rmtree of the .lance-code-rag
\* directory, which holds config.json, manifest.json and the lancedb
\* directory of both tables
Clean ==
    /\ is_initialized
    /\ AllIdle
    /\ is_initialized' = FALSE
    /\ manifest' = NoManifest
    /\ chunks' = EmptyBag
    /\ cache' = EmptyBag
    /\ last' = "cleaned"
    /\ aborted' = FALSE
    /\ UNCHANGED <<fs, run, clock, edits, hist, merkle, server, chunker, tui>>

\* cli.init on a project without the directory: save an empty manifest and,
\* unless --no-index, start run_index(force=False), which finds no old tree
InitProject(r, no_index) ==
    /\ ~is_initialized
    /\ AllIdle
    /\ is_initialized' = TRUE
    /\ manifest' = CreateEmptyManifest(clock)
    /\ IF no_index
       THEN UNCHANGED <<run, clock, hist, last>>
       ELSE /\ clock < MaxRuns
            /\ LET new_tree == BuildTree(fs, NoNode)
               IN run' = [run EXCEPT ![r] =
                     [IdleRun EXCEPT !.pc = "scanned", !.new_tree = new_tree,
                                     !.diff = [EmptyDiff EXCEPT !.new = CollectAllFiles(new_tree)]]]
            /\ clock' = clock + 1
            /\ hist' = [hist EXCEPT ![r] = [manifest |-> manifest', chunks |-> chunks,
                                            cache |-> cache, after |-> last, log |-> <<>>]]
            /\ last' = "running"
    /\ UNCHANGED <<fs, chunks, cache, edits, aborted, merkle, server, chunker, tui>>

\* ------------------------------------------------- scans of a directory
indexerVars ==
    <<fs, manifest, chunks, cache, run, clock, edits, hist, last, aborted, is_initialized,
      server, chunker, tui>>

File(content, mtime) ==
    [kind |-> "file", content |-> content, mtime |-> mtime, readable |-> TRUE]

\* a symbolic link to a file or to a directory
Symlink(to) == [kind |-> "symlink", to |-> to]

Dir == [kind |-> "dir"]

DiskIn(name, entries) ==
    [p \in DOMAIN entries \cup {RootPath} |-> IF p = RootPath THEN RootDir(name) ELSE entries[p]]

DiskOf(entries) == DiskIn(NameP, entries)

InitialDisks ==
    {RootOnly,
     DiskOf([p \in {<<NameA>>, <<NameB>>} |->
                File(IF p = <<NameA>> THEN <<Txt("f")>> ELSE <<Txt("g")>>, 1)]),
     DiskOf([p \in {<<NameD>>, <<NameD, NameA>>, <<NameB>>, <<NameN>>, <<NameX>>, <<NameX, NameA>>} |->
                IF p \in {<<NameD>>, <<NameX>>} THEN Dir ELSE File(<<Txt("f")>>, 1)]),
     DiskOf([p \in {<<NameA>>, <<NameA, NameB>>} |->
                IF p = <<NameA>> THEN Dir ELSE File(<<Txt("f")>>, 1)]),
     \* a project checked out into a directory named node_modules
     DiskIn(NameX, [p \in {<<NameA>>} |-> File(<<Txt("f")>>, 1)])}

InitMerkle ==
    /\ merkle \in {[NoScan EXCEPT !.disk = d] : d \in InitialDisks}
    /\ server = NoServer
    /\ chunker = NoChunker
    /\ tui = NoTui
    /\ fs = NoFiles
    /\ manifest = CreateEmptyManifest(0)
    /\ chunks = EmptyBag
    /\ cache = EmptyBag
    /\ run = [r \in Callers |-> IdleRun]
    /\ clock = 0
    /\ edits = 0
    /\ hist = [r \in Callers |-> NoHist]
    /\ last = "none"
    /\ aborted = FALSE
    /\ is_initialized = TRUE

\* the path names a directory, itself or through a link
IsDir(disk, path) ==
    /\ path \in DOMAIN disk
    /\ \/ disk[path].kind = "dir"
       \/ disk[path].kind = "symlink" /\ disk[path].to = "dir"

DiskOp(disk) ==
    /\ merkle.ops < MaxDiskOps
    /\ merkle' = [merkle EXCEPT !.disk = disk, !.ops = @ + 1]
    /\ UNCHANGED indexerVars

\* MerkleTree.build, with or without the previous tree
ScanDisk(use_previous) ==
    /\ merkle.ops < MaxDiskOps
    /\ merkle' = [merkle EXCEPT
                     !.previous = Build(merkle.disk, IF use_previous THEN merkle.previous ELSE NoNode),
                     !.scanned = merkle.disk,
                     !.ops = @ + 1]
    /\ UNCHANGED indexerVars

\* Path.write_text, os.utime
WriteText(path, content, mtime) ==
    /\ IsDir(merkle.disk, Parent(path))
    /\ IF path \in DOMAIN merkle.disk
       THEN /\ merkle.disk[path].kind = "file"
            /\ merkle.disk[path].readable
            /\ merkle.disk[path] # File(content, mtime)
       ELSE mtime = 1
    /\ DiskOp([p \in DOMAIN merkle.disk \cup {path} |->
                  IF p = path THEN File(content, mtime) ELSE merkle.disk[p]])

Mkdir(path) ==
    /\ IsDir(merkle.disk, Parent(path))
    /\ path \notin DOMAIN merkle.disk
    /\ DiskOp([p \in DOMAIN merkle.disk \cup {path} |->
                  IF p = path THEN Dir ELSE merkle.disk[p]])

\* os.symlink to a file or a directory outside the project
SymlinkTo(path, to) ==
    /\ IsDir(merkle.disk, Parent(path))
    /\ path \notin DOMAIN merkle.disk
    /\ DiskOp([p \in DOMAIN merkle.disk \cup {path} |->
                  IF p = path THEN Symlink(to) ELSE merkle.disk[p]])

\* os.chmod of a file to 0o000 and back
Chmod(path, readable) ==
    /\ path \in DOMAIN merkle.disk
    /\ merkle.disk[path].kind = "file"
    /\ merkle.disk[path].readable # readable
    /\ DiskOp([merkle.disk EXCEPT ![path].readable = readable])

\* os.unlink of a file or of a link; what was seen through the link goes
Unlink(path) ==
    /\ path \in DOMAIN merkle.disk
    /\ merkle.disk[path].kind \in {"file", "symlink"}
    /\ DiskOp([p \in {q \in DOMAIN merkle.disk :
                         ~(Len(q) >= Len(path) /\ SubSeq(q, 1, Len(path)) = path)} |->
                  merkle.disk[p]])

\* shutil.rmtree
Rmtree(path) ==
    /\ path \in DOMAIN merkle.disk
    /\ merkle.disk[path].kind = "dir"
    /\ DiskOp([p \in {q \in DOMAIN merkle.disk :
                         ~(Len(q) >= Len(path) /\ SubSeq(q, 1, Len(path)) = path)} |->
                  merkle.disk[p]])

\* os.rename of a file: content and mtime stay
Rename(path, to) ==
    /\ path \in DOMAIN merkle.disk
    /\ merkle.disk[path].kind = "file"
    /\ IsDir(merkle.disk, Parent(to))
    /\ to \notin DOMAIN merkle.disk
    /\ DiskOp([p \in (DOMAIN merkle.disk \ {path}) \cup {to} |->
                  IF p = to THEN merkle.disk[path] ELSE merkle.disk[p]])

NextMerkle ==
    \/ \E use_previous \in BOOLEAN : ScanDisk(use_previous)
    \/ \E path \in FilePlaces, content \in DiskContents, mtime \in Mtimes :
          WriteText(path, content, mtime)
    \/ \E path \in DirPlaces : Mkdir(path)
    \/ \E path \in LinkPlaces, to \in {"file", "dir"} : SymlinkTo(path, to)
    \/ \E path \in FilePlaces, readable \in BOOLEAN : Chmod(path, readable)
    \/ \E path \in FilePlaces \cup LinkPlaces : Unlink(path)
    \/ \E path \in DirPlaces : Rmtree(path)
    \/ \E path, to \in FilePlaces : Rename(path, to)

SpecMerkle == InitMerkle /\ [][NextMerkle]_vars

Edit ==
    \/ \E p \in Paths, c \in Contents, m \in Mtimes : WriteFile(p, c, m)
    \/ \E p \in Paths : RemoveFile(p)
    \/ \E p, q \in Paths : MoveFile(p, q)

Step(r) ==
    \/ \E force \in BOOLEAN : GetChanges(r, force)
    \/ ClearAndCount(r)
    \/ DeleteDeleted(r)
    \/ ProcessFileDelete(r)
    \/ ProcessFileUpsert(r)
    \/ WriteManifest(r)
    \/ Interrupt(r)

\* one Indexer at a time, as section 5 of the specification presumes
Admin ==
    \/ Clean
    \/ \E no_index \in BOOLEAN : InitProject("cli", no_index)

Next == Edit \/ Step("cli") \/ Admin

Spec == Init /\ [][Next]_vars

\* every caller of run_index may be active, on a file tree that stays as it is
NextConc == \E r \in Callers : Step(r)

SpecConc == Init /\ [][NextConc]_vars

\* --------------------------------------------------------------- searcher
\* A query is the sequence of its characters; str.strip() and str.lower()
\* act on them.  bm25_weight is held in hundredths.
Whitespace == {" ", "\t"}

Queries == {<<>>, <<" ", "\t">>, <<"f">>, <<" ", "G">>, <<"f", " ", " ">>}

One == 100

Weights == {0 - 1, 0, 50, One, One + 1}

Limits == 1..MaxLimit

\* the search_type arguments of search_code: the four documented, and another
SearchTypes == {"hybrid", "vector", "bm25", "fuzzy", "semantic"}

\* str.strip() that strips nothing
StripNothing(query) == query

Strip(query) ==
    LET kept == {i \in DOMAIN query : query[i] \notin Whitespace}
    IN IF kept = {} THEN <<>>
       ELSE SubSeq(query, CHOOSE i \in kept : \A j \in kept : i <= j,
                          CHOOSE i \in kept : \A j \in kept : i >= j)

Lower(ch) == IF ch = "F" THEN "f" ELSE IF ch = "G" THEN "g" ELSE ch

LowerAll(query) == [i \in DOMAIN query |-> Lower(query[i])]

\* the rows of a table, each copy apart, and the orders a scan or a ranking
\* of the table can return them in
Copies(table) == UNION {{<<row, k>> : k \in 1..table[row]} : row \in DOMAIN table}

Orders(table) == {[i \in DOMAIN s |-> s[i][1]] : s \in Perms(Copies(table))}

Take(s, n) == SubSeq(s, 1, IF Len(s) < n THEN Len(s) ELSE n)

\* sorted(..., reverse=True) and list.sort(reverse=True): stable
SortDescending(s, Key(_)) ==
    LET before(i) == Cardinality({j \in DOMAIN s :
                          \/ Key(s[j]) > Key(s[i])
                          \/ Key(s[j]) = Key(s[i]) /\ j < i})
    IN [k \in DOMAIN s |-> s[CHOOSE i \in DOMAIN s : before(i) = k - 1]]

RowToResult(row, score) ==
    [id |-> row.id, filepath |-> row.filepath, name |-> row.name, type |-> row.type,
     score |-> score]

\* vector_search: the rows nearest to the query vector; the similarity
\* 1/(1 + distance) of the i-th nearest row is held as <<"similarity", i>>
VectorSearch(nearest, limit) ==
    LET rows == Take(nearest, limit)
    IN [i \in DOMAIN rows |-> RowToResult(rows[i], <<"similarity", i>>)]

\* a row matches a full-text query that holds its text as a token
FtsMatches(row, query) == \E i \in DOMAIN query : Lower(query[i]) = row.text

\* fts_search: the matching rows, best first; the engine score of the i-th
\* is held as <<"bm25", i>>
FtsSearch(best, query, limit) ==
    LET rows == Take(SelectSeq(best, LAMBDA row : FtsMatches(row, query)), limit)
    IN [i \in DOMAIN rows |-> RowToResult(rows[i], <<"bm25", i>>)]

\* SequenceMatcher(None, a, b).ratio() = 2M / (|a| + |b|) in hundredths, for
\* a name b of one character
Ratio(query_lower, name) ==
    (200 * (IF name \in Range(query_lower) THEN 1 ELSE 0)) \div (Len(query_lower) + 1)

\* a threshold that a ratio of one half passes
AcceptedFromHalf(ratio) == ratio >= 50

\* if ratio > 0.5
Accepted(ratio) == ratio > 50

\* fuzzy_search over the rows as to_arrow() returns them
FuzzySearch(arrow, query, limit) ==
    LET query_lower == LowerAll(query)
        matches == SelectSeq(arrow, LAMBDA row :
                       row.name # "" /\ Accepted(Ratio(query_lower, Lower(row.name))))
        sorted == SortDescending(matches, LAMBDA row : Ratio(query_lower, Lower(row.name)))
        top == Take(sorted, limit)
    IN [i \in DOMAIN top |->
           RowToResult(top[i], <<"ratio", Ratio(query_lower, Lower(top[i].name))>>)]

RrfK == 60

RECURSIVE Gcd(_, _)
Gcd(a, b) == IF b = 0 THEN a ELSE Gcd(b, a % b)

\* the least common multiple of RrfK + 1 .. RrfK + n
RECURSIVE LcmOfRanks(_)
LcmOfRanks(n) ==
    IF n = 0 THEN 1
    ELSE LET l == LcmOfRanks(n - 1)
         IN (l \div Gcd(l, RrfK + n)) * (RrfK + n)

\* RRF scores are held exactly, in units of 1 / RrfUnit
RrfUnit == LcmOfRanks(MaxRows)

\* 1 / (k + rank) with the rank counted from 0
RrfShareFromZero(rank) == RrfUnit \div (RrfK + rank - 1)

RrfShare(rank) == RrfUnit \div (RrfK + rank)

NoScores == [ids |-> <<>>, scores |-> [id \in {} |-> 0]]

\* one loop of _rerank_rrf over a result list: scores[id] += 1 / (k + rank);
\* the ids stay in the order in which the dict got them
RECURSIVE Accumulate(_, _, _)
Accumulate(acc, results, rank) ==
    IF rank > Len(results) THEN acc
    ELSE LET id == results[rank].id
         IN Accumulate(
               [ids |-> IF id \in DOMAIN acc.scores THEN acc.ids ELSE Append(acc.ids, id),
                scores |-> [x \in DOMAIN acc.scores \cup {id} |->
                               (IF x \in DOMAIN acc.scores THEN acc.scores[x] ELSE 0)
                                   + (IF x = id THEN RrfShare(rank) ELSE 0)]],
               results, rank + 1)

\* result_map[id]: the last vector result of the id, else its first fts result
ResultMap(vector_results, fts_results, id) ==
    LET v == {i \in DOMAIN vector_results : vector_results[i].id = id}
        f == {i \in DOMAIN fts_results : fts_results[i].id = id}
    IN IF v # {} THEN vector_results[CHOOSE i \in v : \A j \in v : i >= j]
       ELSE fts_results[CHOOSE i \in f : \A j \in f : i <= j]

RerankRrf(vector_results, fts_results, limit) ==
    LET acc == Accumulate(Accumulate(NoScores, vector_results, 1), fts_results, 1)
        sorted_ids == SortDescending(acc.ids, LAMBDA id : acc.scores[id])
        top == Take(sorted_ids, limit)
    IN [k \in DOMAIN top |->
           [ResultMap(vector_results, fts_results, top[k])
               EXCEPT !.score = <<"rrf", acc.scores[top[k]]>>]]

\* hybrid_search that fetches limit results from each search
FetchKLimit(limit) == limit

\* fetch_k of hybrid_search
FetchK(limit) == limit * 3

\* hybrid_search on the two lists fetched with fetch_k
HybridSearch(vector_results, fts_results, limit, bm25_weight) ==
    IF vector_results = <<>> /\ fts_results = <<>> THEN <<>>
    ELSE IF vector_results = <<>> THEN Take(fts_results, limit)
    ELSE IF fts_results = <<>> THEN Take(vector_results, limit)
    ELSE RerankRrf(vector_results, fts_results, limit)

\* the mode selection of search() with bm25_weight < 0 for vector
SelectModeBelowZero(fuzzy, bm25_weight) ==
    IF fuzzy THEN "fuzzy"
    ELSE IF bm25_weight < 0 THEN "vector"
    ELSE IF bm25_weight >= One THEN "fts"
    ELSE "hybrid"

SelectMode(fuzzy, bm25_weight) ==
    IF fuzzy THEN "fuzzy"
    ELSE IF bm25_weight <= 0 THEN "vector"
    ELSE IF bm25_weight >= One THEN "fts"
    ELSE "hybrid"

\* what a call of SearchEngine.search gives: the exception it raises or its
\* SearchResults, the calls it made to the embedder and the store, and the
\* two lists a hybrid search fused
NoOutcome ==
    [raised |-> "none", message |-> "", search_type |-> "", results |-> <<>>,
     calls |-> <<>>, fetch_k |-> 0, vector_results |-> <<>>, fts_results |-> <<>>]

\* _ensure_fts_text_index, then the full-text query
FtsCalls(fts_text_index_created) ==
    (IF fts_text_index_created THEN <<>> ELSE <<"create_fts_index">>) \o <<"search_fts">>

VectorCalls == <<"embed_single", "search_vector">>

\* SearchEngine.search; ranking holds the orders the store returns the rows
\* in: nearest to the query vector, best for the full-text query, to_arrow()
Search(table, query, limit, fuzzy, bm25_weight, ranking, fts_text_index_created) ==
    IF Strip(query) = <<>>
    THEN [NoOutcome EXCEPT !.raised = "SearchError", !.message = "Query cannot be empty"]
    ELSE IF CountChunks(table) = 0
    THEN [NoOutcome EXCEPT !.raised = "SearchError",
                           !.message = "No index found. Run 'lcm index' first.",
                           !.calls = <<"count_rows">>]
    ELSE LET search_type == SelectMode(fuzzy, bm25_weight)
         IN IF search_type = "fuzzy"
            THEN [NoOutcome EXCEPT !.search_type = search_type,
                                   !.results = FuzzySearch(ranking.arrow, query, limit),
                                   !.calls = <<"count_rows", "to_arrow">>]
            ELSE IF search_type = "vector"
            THEN [NoOutcome EXCEPT !.search_type = search_type,
                                   !.results = VectorSearch(ranking.nearest, limit),
                                   !.calls = <<"count_rows">> \o VectorCalls]
            ELSE IF search_type = "fts"
            THEN [NoOutcome EXCEPT !.search_type = search_type,
                                   !.results = FtsSearch(ranking.best, query, limit),
                                   !.calls = <<"count_rows">> \o FtsCalls(fts_text_index_created)]
            ELSE LET vector_results == VectorSearch(ranking.nearest, FetchK(limit))
                     fts_results == FtsSearch(ranking.best, query, FetchK(limit))
                 IN [NoOutcome EXCEPT
                        !.fetch_k = FetchK(limit),
                        !.search_type = search_type,
                        !.results = HybridSearch(vector_results, fts_results, limit, bm25_weight),
                        !.calls = <<"count_rows">> \o VectorCalls
                                      \o FtsCalls(fts_text_index_created),
                        !.vector_results = vector_results,
                        !.fts_results = fts_results]

\* no search reads both `best` and `arrow`
Rankings(table) ==
    {[nearest |-> n, best |-> o, arrow |-> o] : n \in Orders(table), o \in Orders(table)}

\* ----------------------------------------------------------- tool surface
\* _get_chunks_table that creates the table anew
GetChunksTableAnew(chunks_table, table) == EmptyBag

\* _get_chunks_table: open the table, or create it empty when it is missing
GetChunksTable(chunks_table, table) == IF chunks_table THEN table ELSE EmptyBag

\* get_chunks_by_filepath: the rows selected by f"filepath = '{filepath}'",
\* none when the predicate does not parse
GetChunksByFilepath(table, filepath) ==
    IF FilepathFilterParses(filepath)
    THEN BagKeep(table, LAMBDA row : FilepathFilterMatches(row, filepath))
    ELSE EmptyBag

\* the operations of the tool surface
ToolOps == {"search_code", "fuzzy_find", "index_codebase", "get_file_context",
            "get_stale_status", "get_status", "get_config", "get_files"}

\* the operations that only read
ReadOps == (ToolOps \ {"index_codebase"}) \cup {"run_search"}

\* the request is idle, or the operation failed with the exception `raised`,
\* or it returned the fields that follow
Returned(op, args) == [NoResponse EXCEPT !.op = op, !.args = args]

Ready ==
    /\ is_initialized
    /\ AllIdle
    /\ server.response.op = "none"
    /\ CountChunks(chunks) <= MaxRows

\* what an operation that opens the chunk table leaves of the store
OpenStore(fts_text_index_created, response) ==
    /\ chunks' = GetChunksTable(server.chunks_table, chunks)
    /\ server' = [server EXCEPT !.chunks_table = TRUE,
                                !.fts_text_index_created = fts_text_index_created,
                                !.response = response]
    /\ UNCHANGED <<fs, manifest, cache, run, clock, edits, hist, last, aborted,
                   is_initialized, merkle, chunker, tui>>

\* what an operation that opens no table leaves
NoStore(response) ==
    /\ server' = [server EXCEPT !.response = response]
    /\ UNCHANGED <<fs, manifest, chunks, cache, run, clock, edits, hist, last, aborted,
                   is_initialized, merkle, chunker, tui>>

\* the outcome of search() as the response of the operation `op`
SearchResponse(op, args, out, staleness) ==
    [Returned(op, args) EXCEPT
        !.raised = out.raised, !.message = out.message,
        !.search_type = out.search_type, !.results = out.results,
        !.calls = out.calls, !.fetch_k = out.fetch_k,
        !.vector_results = out.vector_results,
        !.fts_results = out.fts_results,
        !.warning = IF out.raised = "none" THEN SearchWarning(staleness) ELSE "None"]

UsesFts(out) == \E i \in DOMAIN out.calls : out.calls[i] = "search_fts"

\* cli search: run_search on a new SearchEngine; SearchError is reported
RunSearch(query, limit, fuzzy, bm25_weight) ==
    /\ Ready
    /\ \E ranking \in Rankings(chunks) :
          LET out == Search(GetChunksTable(server.chunks_table, chunks), query, limit, fuzzy,
                            bm25_weight, ranking, FALSE)
              response == SearchResponse("run_search",
                              [query |-> query, limit |-> limit, fuzzy |-> fuzzy,
                               bm25_weight |-> bm25_weight],
                              out, StalenessInfo(FALSE, <<>>, ""))
          IN IF out.calls = <<>>
             THEN NoStore(response)
             ELSE OpenStore(server.fts_text_index_created, response)

\* search_code_impl: staleness, then the search on the server's SearchEngine
SearchCode(query, top_k, search_type, bm25_weight) ==
    /\ Ready
    /\ \E ranking \in Rankings(chunks), staleness \in CheckStaleness(server.manifest, fs) :
          LET fuzzy == search_type = "fuzzy"
              weight == IF search_type = "vector" THEN 0
                        ELSE IF search_type = "bm25" THEN One
                        ELSE bm25_weight
              out == Search(GetChunksTable(server.chunks_table, chunks), query, top_k, fuzzy,
                            weight, ranking, server.fts_text_index_created)
              response == SearchResponse("search_code",
                              [query |-> query, top_k |-> top_k, search_type |-> search_type,
                               bm25_weight |-> bm25_weight],
                              out, staleness)
          IN IF out.calls = <<>>
             THEN NoStore(response)
             ELSE OpenStore(server.fts_text_index_created \/ UsesFts(out), response)

\* fuzzy_find_impl: the top 10 of the 20 best names, of the given type
FuzzyFind(symbol_name, symbol_type) ==
    /\ Ready
    /\ \E arrow \in Orders(chunks), staleness \in CheckStaleness(server.manifest, fs) :
          LET found == FuzzySearch(IF server.chunks_table THEN arrow ELSE <<>>, symbol_name, 20)
              results == IF symbol_type = "None" THEN found
                         ELSE SelectSeq(found, LAMBDA r : r.type = symbol_type)
          IN OpenStore(server.fts_text_index_created,
                [Returned("fuzzy_find", [symbol_name |-> symbol_name, symbol_type |-> symbol_type])
                    EXCEPT !.results = Take(results, 10),
                           !.calls = <<"to_arrow">>,
                           !.warning = SearchWarning(staleness)])

\* get_file_context_impl
GetFileContext(filepath, include_related) ==
    /\ Ready
    /\ \E best \in Orders(chunks) :
          LET table == GetChunksTable(server.chunks_table, chunks)
              found == GetChunksByFilepath(table, filepath)
              related == IF include_related
                         THEN SelectSeq(FtsSearch(best, <<filepath[Len(filepath)]>>, 10),
                                        LAMBDA r : r.filepath # filepath)
                         ELSE <<>>
          IN OpenStore(server.fts_text_index_created \/ include_related,
                [Returned("get_file_context",
                          [filepath |-> filepath, include_related |-> include_related])
                    EXCEPT !.results = related,
                           !.calls = <<"search_where">>
                               \o (IF include_related
                                   THEN FtsCalls(server.fts_text_index_created) ELSE <<>>),
                           !.data = [total_chunks |-> BagCardinality(found)]])

\* get_stale_status_impl: the first 20 stale files and their number
GetStaleStatus ==
    /\ Ready
    /\ \E staleness \in CheckStaleness(server.manifest, fs) :
          NoStore([Returned("get_stale_status", <<>>) EXCEPT
                      !.message = staleness.message,
                      !.data = [is_stale |-> staleness.is_stale,
                                stale_files |-> Take(staleness.stale_files, 20),
                                stale_file_count |-> Len(staleness.stale_files)]])

\* get_status_impl
GetStatus ==
    /\ Ready
    /\ \E staleness \in CheckStaleness(server.manifest, fs) :
          NoStore([Returned("get_status", <<>>) EXCEPT
                      !.data = [index_exists |-> server.manifest # NoManifest
                                                    /\ server.manifest.tree # NoNode,
                                is_stale |-> staleness.is_stale,
                                total_files |-> server.manifest.stats.total_files,
                                total_chunks |-> server.manifest.stats.total_chunks,
                                last_updated |-> server.manifest.updated_at]])

\* get_config_impl
GetConfig ==
    /\ Ready
    /\ NoStore([Returned("get_config", <<>>) EXCEPT
                   !.data = [extensions |-> Extensions, exclude_patterns |-> ExcludePatterns]])

\* get_files_impl: the distinct filepaths with their chunk counts
GetFiles ==
    /\ Ready
    /\ LET table == GetChunksTable(server.chunks_table, chunks)
           filepaths == SelectSeq(PathOrder, LAMBDA p : p \in GetAllFilepaths(table))
       IN OpenStore(server.fts_text_index_created,
             [Returned("get_files", <<>>) EXCEPT
                 !.calls = <<"to_arrow">> \o [i \in DOMAIN filepaths |-> "search_where"],
                 !.data = [files |-> [i \in DOMAIN filepaths |->
                                         [filepath |-> filepaths[i],
                                          chunk_count |-> BagCardinality(
                                              GetChunksByFilepath(table, filepaths[i]))]],
                           total_files |-> Len(filepaths)]])

\* the loop of index() over new + modified, run to its end or to the first
\* exception that leaves _process_file
RECURSIVE ProcessFiles(_, _, _, _)
ProcessFiles(st, filepaths, files, now) ==
    IF filepaths = <<>> \/ st.raised # "none" THEN st
    ELSE LET filepath == Head(filepaths)
         IN IF filepath \notin DOMAIN files
            THEN ProcessFiles(st, Tail(filepaths), files, now)
            ELSE IF ReadText(files[filepath].content) # "ok"
            THEN [st EXCEPT !.raised = ReadText(files[filepath].content)]
            ELSE LET content == files[filepath].content
                     table == DeleteChunksByFilepath(st.table, filepath)
                     cs == ChunkFile(content)
                     to_embed == ToEmbed(st.cache, cs)
                     code_chunks == CodeChunks(filepath, content, ComputeFileHash(content))
                 IN IF cs = <<>>
                    THEN ProcessFiles([st EXCEPT !.table = table, !.chunks_table = TRUE],
                                      Tail(filepaths), files, now)
                    ELSE IF ~IdFilterParses(code_chunks)
                    THEN [st EXCEPT !.raised = "RuntimeError", !.table = table,
                                    !.chunks_table = TRUE,
                                    !.cache = CacheEmbeddings(@, CacheEntries(to_embed, now))]
                    ELSE ProcessFiles(
                            [st EXCEPT !.table = UpsertChunks(table, code_chunks),
                                       !.chunks_table = TRUE,
                                       !.cache = CacheEmbeddings(@, CacheEntries(to_embed, now)),
                                       !.chunks_added = @ + Len(code_chunks)],
                            Tail(filepaths), files, now)

\* run_index to its end, by the tool index_codebase, which then reloads the
\* manifest of the server and answers, or by another process
RunIndex(force, tool) ==
    /\ Ready
    /\ clock < MaxIndexRequests
    /\ LET old_tree == manifest.tree
           new_tree == BuildTree(fs, IF force THEN NoNode ELSE old_tree)
           now == clock + 1
       IN \E diff \in (IF force \/ old_tree = NoNode
                       THEN {[EmptyDiff EXCEPT !.new = CollectAllFiles(new_tree)]}
                       ELSE Compare(old_tree, new_tree)) :
            LET cleared == IF force THEN ClearAll(chunks)
                           ELSE GetChunksTable(server.chunks_table, chunks)
                deleted == DeleteChunksByFilepaths(cleared, diff.deleted)
                done == ProcessFiles(
                           [raised |-> "none", table |-> deleted.table, cache |-> cache,
                            chunks_table |-> (~force /\ server.chunks_table) \/ diff.deleted # <<>>,
                            chunks_added |-> 0],
                           FilesToProcess(diff), fs, now)
                stats == [ZeroStats EXCEPT !.files_scanned = CountFiles(new_tree),
                                           !.files_new = Len(diff.new),
                                           !.files_modified = Len(diff.modified),
                                           !.files_deleted = Len(diff.deleted),
                                           !.chunks_added = done.chunks_added,
                                           !.chunks_deleted = deleted.deleted]
            IN /\ chunks' = done.table
               /\ cache' = done.cache
               /\ manifest' = IF done.raised = "none"
                              THEN UpdateManifest(manifest, new_tree, stats, done.table, now)
                              ELSE manifest
               /\ last' = IF done.raised # "none" THEN "failed"
                          ELSE IF force THEN "forced" ELSE "indexed"
               /\ aborted' = (aborted \/ done.raised # "none")
               /\ server' = [server EXCEPT
                     !.chunks_table = done.chunks_table \/ done.raised = "none",
                     !.manifest = IF tool /\ done.raised = "none" THEN manifest' ELSE @,
                     !.response =
                         IF ~tool THEN NoResponse
                         ELSE [Returned("index_codebase", [force |-> force]) EXCEPT
                                  !.raised = done.raised,
                                  !.message = IF done.raised # "none" THEN ""
                                              ELSE IF HasChanges(diff) THEN "Indexing complete."
                                              ELSE "Index is already up to date.",
                                  !.data = IF done.raised = "none" THEN stats ELSE <<>>]]
    /\ clock' = clock + 1
    /\ UNCHANGED <<fs, run, edits, hist, is_initialized, merkle, chunker, tui>>

\* index_codebase_impl
IndexCodebase(force) == RunIndex(force, TRUE)

\* cli index, or the TUI, while the server runs
IndexByOtherProcess(force) == RunIndex(force, FALSE)

\* the result goes to the client, or the exception to the caller
Respond ==
    /\ server.response.op # "none"
    /\ server' = [server EXCEPT !.response = NoResponse]
    /\ UNCHANGED <<fs, manifest, chunks, cache, run, clock, edits, hist, last, aborted,
                   is_initialized, merkle, chunker, tui>>

Read ==
    \/ \E query \in Queries, limit \in Limits, fuzzy \in BOOLEAN, bm25_weight \in Weights :
          RunSearch(query, limit, fuzzy, bm25_weight)
    \/ \E query \in Queries, top_k \in Limits, search_type \in SearchTypes,
          bm25_weight \in Weights :
          SearchCode(query, top_k, search_type, bm25_weight)
    \/ \E symbol_name \in Queries, symbol_type \in {"None", "function", "class"} :
          FuzzyFind(symbol_name, symbol_type)
    \/ \E filepath \in Paths, include_related \in BOOLEAN :
          GetFileContext(filepath, include_related)
    \/ GetStaleStatus
    \/ GetStatus
    \/ GetConfig
    \/ GetFiles

\* a file is rewritten or removed while no request is in flight
EditBetweenRequests ==
    /\ server.response.op = "none"
    /\ \/ \E content \in {<<"g">>, <<Assignment>>, <<Undecodable>>} :
             WriteFile(PathA, content, 2)
       \/ RemoveFile(PathA)

NextSearch ==
    \/ Read
    \/ \E force \in BOOLEAN : IndexCodebase(force)
    \/ Respond
    \/ EditBetweenRequests

SpecSearch == Init /\ [][NextSearch]_vars

\* a search whose answer carries the staleness warning
SearchForWarning == SearchCode(<<"f">>, 1, "fuzzy", 50)

\* a running server and another process that indexes the same project
NextServer ==
    \/ GetStaleStatus
    \/ GetStatus
    \/ SearchForWarning
    \/ \E force \in BOOLEAN : IndexCodebase(force)
    \/ \E force \in BOOLEAN : IndexByOtherProcess(force)
    \/ Respond
    \/ EditBetweenRequests

SpecServer == Init /\ [][NextServer]_vars


\* ----------------------------------------------------------- properties
\* the rows a completed index of the files holds: the chunks of every file
ExpectedRows(files) ==
    SetToBag(UNION {Range(CodeChunks(p, files[p].content, ComputeFileHash(files[p].content))) :
                        p \in DOMAIN files})

QuoteFree(files) == \A p \in DOMAIN files : Len(p) = 1

Finished(r) == run[r].pc = "manifest"

\* C1: when a run was interrupted before its manifest write and no file
\* changed since, the next non-forced run that completes leaves the chunk
\* table holding exactly the chunks of the files in the tree.  Stated for
\* trees whose paths hold no quote character.
ConvergesAfterInterrupt ==
    \A r \in Callers :
        (Finished(r) /\ ~run[r].force /\ hist[r].after = "interrupted" /\ QuoteFree(fs))
            => chunks = ExpectedRows(fs)

\* C2: no step of a run other than its final manifest write changes the
\* persisted manifest; a cancelled or failed run leaves the manifest (tree,
\* stats, created_at, updated_at) as it was when the run started.
ManifestWrittenLast ==
    [][\A r \in Callers :
          (run[r].pc # "idle" /\ ~(run[r].pc = "manifest" /\ last' \in {"indexed", "forced"}))
              => manifest' = hist[r].manifest]_vars

\* a run was interrupted after it stored rows, and the manifest is still
\* the one `init` wrote
InterruptedAfterRows ==
    /\ last = "interrupted"
    /\ chunks # EmptyBag
    /\ manifest = CreateEmptyManifest(0)

\* C3: a non-forced run that follows a completed non-forced run with no
\* file change in between finds no change, reports zero new, modified and
\* deleted files, zero chunks added and deleted and zero embeddings
\* computed, and leaves every row and every cache entry as it was.
SecondRunIsNoOp ==
    \A r \in Callers :
        (run[r].pc \notin {"idle", "scanned"} /\ ~run[r].force /\ hist[r].after = "indexed")
            => /\ run[r].pc = "manifest"
               /\ run[r].stats.files_new = 0
               /\ run[r].stats.files_modified = 0
               /\ run[r].stats.files_deleted = 0
               /\ run[r].stats.chunks_added = 0
               /\ run[r].stats.chunks_deleted = 0
               /\ run[r].stats.embeddings_computed = 0
               /\ chunks = hist[r].chunks
               /\ cache = hist[r].cache

\* the second of two runs on an unchanged, indexed, non-empty tree is done
SecondRunDone ==
    \E r \in Callers :
        /\ Finished(r) /\ ~run[r].force /\ hist[r].after = "indexed"
        /\ chunks # EmptyBag
        /\ run[r].stats.files_scanned > 0

TreeFiles(tree) == IF tree.type = "directory" THEN DOMAIN tree.children ELSE {}

\* C4: when every run so far completed, after a run the chunk table holds
\* no path that is missing from the tree the run writes to the manifest,
\* and holds every file of that tree for which the chunker yields a chunk.
StorePathsMatchTree ==
    \A r \in Callers :
        (Finished(r) /\ ~aborted)
            => /\ GetAllFilepaths(chunks) \subseteq TreeFiles(run[r].new_tree)
               /\ \A p \in TreeFiles(run[r].new_tree) :
                     ChunkFile(fs[p].content) # <<>> => p \in GetAllFilepaths(chunks)

DiffPaths(diff) == Range(diff.new) \cup Range(diff.modified) \cup Range(diff.deleted)

\* C5: a non-forced run changes no row of a file that is in none of its
\* new, modified and deleted lists, whatever characters the paths hold.
UnchangedFilesKeepRows ==
    \A r \in Callers :
        (run[r].pc # "idle" /\ ~run[r].force)
            => \A row \in DOMAIN chunks \cup DOMAIN hist[r].chunks :
                  row.filepath \notin DiffPaths(run[r].diff)
                      => CopiesIn(row, chunks) = CopiesIn(row, hist[r].chunks)

\* C6: after any sequence of index() runs of a single writer the chunk
\* table holds at most one row per id.
OneRowPerId ==
    /\ \A row \in DOMAIN chunks : chunks[row] = 1
    /\ \A r1, r2 \in DOMAIN chunks : r1.id = r2.id => r1 = r2

\* C7: at every instant all rows with one filepath carry the same
\* file_hash: a reader never sees rows of two versions of a file together.
OneVersionPerFile ==
    \A r1, r2 \in DOMAIN chunks : r1.filepath = r2.filepath => r1.file_hash = r2.file_hash

\* C8: at most one Indexer run is active on the project at any time.
OneIndexerAtATime == Cardinality({r \in Callers : run[r].pc # "idle"}) <= 1

NoDuplicates(s) == Cardinality(Range(s)) = Len(s)

\* C9: within a run every deletion for a path of the deleted list precedes
\* the first upsert, the three diff lists are pairwise disjoint, and every
\* path of new and modified is processed exactly once.
DeletionsFirstEachOnce ==
    \A r \in Callers :
        LET log == hist[r].log
            d == run[r].diff
        IN /\ \A i, j \in DOMAIN log :
                 (log[i][1] = "delete" /\ log[j][1] = "upsert") => i < j
           /\ NoDuplicates(d.new) /\ NoDuplicates(d.modified) /\ NoDuplicates(d.deleted)
           /\ Range(d.new) \cap Range(d.modified) = {}
           /\ Range(d.new) \cap Range(d.deleted) = {}
           /\ Range(d.modified) \cap Range(d.deleted) = {}
           /\ Finished(r) =>
                 /\ \A p \in Range(d.new) \cup Range(d.modified) :
                       Cardinality({k \in DOMAIN log :
                                       log[k] \in {<<"replace", p>>, <<"skip", p>>}}) = 1
                 /\ \A p \in Range(d.deleted) : \E k \in DOMAIN log : log[k] = <<"delete", p>>

\* a run that deleted the rows of a removed file and stored a new file is done
DeletedAndStored ==
    \E r \in Callers :
        /\ Finished(r)
        /\ \E i, j \in DOMAIN hist[r].log :
              hist[r].log[i][1] = "delete" /\ hist[r].log[j][1] = "upsert"

\* C10: after a forced run the chunk table holds exactly the chunks of the
\* files in the tree, every file hash of the new tree is the hash of the
\* file's bytes, and the run reports every scanned file as new.
ForceRebuildsExactly ==
    \A r \in Callers :
        (Finished(r) /\ run[r].force)
            => /\ chunks = ExpectedRows(fs)
               /\ \A p \in DOMAIN fs :
                     run[r].new_tree.children[p].hash = ComputeFileHash(fs[p].content)
               /\ run[r].stats.files_new = run[r].stats.files_scanned
               /\ run[r].stats.files_modified = 0
               /\ run[r].stats.files_deleted = 0

\* every file hash of the tree is the hash of the bytes the file holds now
HashesTrue(tree, files) ==
    \A p \in TreeFiles(tree) :
        p \in DOMAIN files => tree.children[p].hash = ComputeFileHash(files[p].content)

\* C11 as stated: a forced run on a tree whose content is unchanged since
\* the previous completed run computes no embedding, and the number of
\* embeddings it takes from the cache is the number of chunks it stores.
ForceReusesCache ==
    \A r \in Callers :
        (Finished(r) /\ run[r].force /\ hist[r].after \in {"indexed", "forced"})
            => /\ run[r].stats.embeddings_computed = 0
               /\ run[r].stats.embeddings_cached = run[r].stats.chunks_added

\* C11: a forced run on a tree whose content is unchanged since the previous
\* completed run, when every file hash of the manifest is the hash of the
\* file's bytes (no hash was reused for a changed file of equal mtime and
\* size), computes no embedding and takes from the cache as many embeddings
\* as it stores chunks.
ForceReusesCacheOfHashedFiles ==
    \A r \in Callers :
        (Finished(r) /\ run[r].force /\ hist[r].after \in {"indexed", "forced"}
                     /\ HashesTrue(hist[r].manifest.tree, fs))
            => /\ run[r].stats.embeddings_computed = 0
               /\ run[r].stats.embeddings_cached = run[r].stats.chunks_added

\* a forced run after a completed run has stored two chunks from the cache
ForcedRunFromCache ==
    \E r \in Callers :
        /\ Finished(r) /\ run[r].force /\ hist[r].after \in {"indexed", "forced"}
        /\ HashesTrue(hist[r].manifest.tree, fs)
        /\ run[r].stats.chunks_added = 2
        /\ run[r].stats.embeddings_cached = 2

\* the content hashes of the chunks the bounded contents can yield
ContentHashes == {ContentHash(c) : c \in UNION {Range(ChunkFile(content)) : content \in Contents}}

\* C12: no step of index() or index(force=true), the clearing of the chunk
\* table included, decreases the number of cache entries, and every content
\* hash the cache lookup returned before the step it returns after it.
CacheOnlyGrows ==
    [][(is_initialized /\ is_initialized')
          => /\ BagCardinality(cache') >= BagCardinality(cache)
             /\ GetCachedEmbeddings(cache, ContentHashes)
                   \subseteq GetCachedEmbeddings(cache', ContentHashes)]_vars

\* a forced run has cleared the chunk table and completed on a tree of two
\* files, and the cache holds entries
ForcedRunKeptCache ==
    /\ last = "forced"
    /\ Cardinality(DOMAIN fs) = 2
    /\ GetCachedEmbeddings(cache, ContentHashes) # {}

\* C13 as stated: clean removes the chunk table and leaves every cache entry
\* in place.
CleanKeepsCache ==
    [][(is_initialized /\ ~is_initialized') => (chunks' = EmptyBag /\ cache' = cache)]_vars

\* C13: clean removes the whole .lance-code-rag directory, that is the
\* manifest, the chunk table and every cache entry, so the first index() run
\* after clean starts from an empty cache and computes an embedding whenever
\* it stores a chunk, also for content that was indexed before.
CleanRemovesCache ==
    /\ [][(is_initialized /\ ~is_initialized')
             => (manifest' = NoManifest /\ chunks' = EmptyBag /\ cache' = EmptyBag)]_vars
    /\ [](\A r \in Callers :
            (run[r].pc # "idle" /\ hist[r].after = "cleaned")
                => /\ hist[r].cache = EmptyBag
                   /\ (Finished(r) /\ run[r].stats.chunks_added > 0)
                         => run[r].stats.embeddings_computed > 0)

\* the second run of the project, started after clean, has computed
\* embeddings again
ReindexedAfterClean ==
    \E r \in Callers :
        /\ Finished(r) /\ hist[r].after = "cleaned" /\ clock >= 2
        /\ run[r].stats.embeddings_computed > 0

\* the file paths of a tree, and the trees a scan of the disk can give
FilesOf(tree) == Range(CollectFilesUnder(tree))

ScansOf(m) == {Build(m.disk, NoNode), Build(m.disk, m.previous)}

\* what C14 says of one diff
DiffIsSound(old, new, diff) ==
    /\ Range(diff.new) \cap Range(diff.modified) = {}
    /\ Range(diff.new) \cap Range(diff.deleted) = {}
    /\ Range(diff.modified) \cap Range(diff.deleted) = {}
    /\ \A p \in Range(diff.new) : p \in FilesOf(new) \ FilesOf(old)
    /\ \A p \in Range(diff.deleted) : p \in FilesOf(old) \ FilesOf(new)
    /\ \A p \in Range(diff.modified) :
          /\ p \in FilesOf(old) \cap FilesOf(new)
          /\ NodeAt(old, p).hash # NodeAt(new, p).hash

\* C14: for the tree of the previous scan and a tree of the present disk,
\* compared in either direction, the three lists are pairwise disjoint, a
\* path of new is a file of the new tree only, a path of deleted a file of
\* the old tree only, a path of modified a file of both with different
\* hashes; a tree compared with itself gives three empty lists.
CompareIsSound ==
    \A new \in ScansOf(merkle) :
        /\ DiffIsSound(merkle.previous, new, CompareTrees(merkle.previous, new))
        /\ DiffIsSound(new, merkle.previous, CompareTrees(new, merkle.previous))
        /\ CompareTrees(new, new) = EmptyDiff
        /\ CompareTrees(merkle.previous, merkle.previous) = EmptyDiff

\* the diff of the previous scan and the present disk has a new, a modified
\* and a deleted path, one of them inside a directory
ThreeKindsOfChange ==
    \E new \in ScansOf(merkle) :
        LET diff == CompareTrees(merkle.previous, new)
        IN /\ diff.new # <<>> /\ diff.modified # <<>> /\ diff.deleted # <<>>
           /\ \E p \in Range(diff.new) \cup Range(diff.modified) \cup Range(diff.deleted) :
                 Len(p) = 2

\* what C15 says of one diff
DiffIsComplete(old, new, diff) ==
    /\ \A p \in FilesOf(new) \ FilesOf(old) : p \in Range(diff.new)
    /\ \A p \in FilesOf(old) \ FilesOf(new) : p \in Range(diff.deleted)
    /\ \A p \in FilesOf(old) \cap FilesOf(new) :
          NodeAt(old, p).hash # NodeAt(new, p).hash => p \in Range(diff.modified)
    /\ NoDuplicates(diff.new) /\ NoDuplicates(diff.modified) /\ NoDuplicates(diff.deleted)

\* C15 as stated: compare misses no change between the tree of the previous
\* scan and a tree of the present disk, at any depth, and lists each path
\* once.
CompareIsComplete ==
    \A new \in ScansOf(merkle) :
        /\ DiffIsComplete(merkle.previous, new, CompareTrees(merkle.previous, new))
        /\ DiffIsComplete(new, merkle.previous, CompareTrees(new, merkle.previous))

\* the two disks hold the same entries and differ in the bytes of the one
\* file p, which both scans include
DifferInOneFile(before, after, p) ==
    /\ DOMAIN before = DOMAIN after
    /\ \A q \in DOMAIN before \ {p} : before[q] = after[q]
    /\ p \in FilesOf(Build(before, NoNode)) \cap FilesOf(Build(after, NoNode))
    /\ before[p].content # after[p].content

Places == FilePlaces \cup DirPlaces \cup {RootPath}

\* the paths whose node is in one tree only or has another hash in the other
ChangedNodes(old, new) ==
    {q \in Places :
        LET a == NodeAt(old, q)
            b == NodeAt(new, q)
        IN IF a = NoNode \/ b = NoNode THEN a # b ELSE a.hash # b.hash}

Ancestors(p) == {SubSeq(p, 1, k) : k \in 0..Len(p)}

\* C16 as stated: between the previous scan and a scan of the present disk,
\* when the disks differ in the content of exactly one file, the nodes whose
\* hashes differ are that file's node and its ancestor directories.
OneFileChangesItsAncestors ==
    \A p \in FilePlaces :
        DifferInOneFile(merkle.scanned, merkle.disk, p)
            => \A new \in ScansOf(merkle) :
                  ChangedNodes(merkle.previous, new) = Ancestors(p)

\* C16: the same, when both scans hashed the bytes of every file (neither
\* reused a hash of the tree before it for a file of equal mtime and size).
OneHashedFileChangesItsAncestors ==
    \A p \in FilePlaces :
        (DifferInOneFile(merkle.scanned, merkle.disk, p)
            /\ merkle.previous = Build(merkle.scanned, NoNode))
            => \A new \in ScansOf(merkle) :
                  new = Build(merkle.disk, NoNode)
                      => ChangedNodes(merkle.previous, new) = Ancestors(p)

\* a file inside a directory was rewritten after the scan, next to a file
\* and a directory that stayed
NestedFileRewritten ==
    \E p \in FilePlaces :
        /\ Len(p) = 2
        /\ DifferInOneFile(merkle.scanned, merkle.disk, p)
        /\ merkle.previous = Build(merkle.scanned, NoNode)
        /\ Cardinality(FilesOf(merkle.previous)) >= 2
        /\ ChangedNodes(merkle.previous, Build(merkle.disk, NoNode)) = Ancestors(p)

\* the included files of a disk with their bytes: readable regular files,
\* reached through no link, with an included extension and no NUL byte,
\* under no excluded name below the root
IncludedContent(disk) ==
    LET included == {p \in DOMAIN disk :
                        /\ disk[p].kind = "file"
                        /\ \A k \in 1..(Len(p) - 1) : disk[SubSeq(p, 1, k)].kind # "symlink"
                        /\ Suffix(Basename(p)) \in Extensions
                        /\ disk[p].readable
                        /\ Nul \notin Range(disk[p].content)
                        /\ \A i \in DOMAIN p : \A x \in ExcludePatterns : p[i] # <<Txt(x)>>}
    IN [p \in included |-> disk[p].content]

HashesOf(tree) ==
    [q \in {x \in Places : NodeAt(tree, x) # NoNode} |-> NodeAt(tree, q).hash]

\* every file node of the prior tree that has the path, mtime and size of a
\* file on the disk carries the hash of that file's bytes
PriorAgrees(prior, disk) ==
    \A p \in FilesOf(prior) :
        (/\ p \in DOMAIN disk
         /\ disk[p].kind = "file"
         /\ NodeAt(prior, p).mtime = disk[p].mtime
         /\ NodeAt(prior, p).size = FileSize(disk[p].content))
            => NodeAt(prior, p).hash = ComputeFileHash(disk[p].content)

\* C17 as stated: the hash of every node is the same with the previous tree
\* and with none, and it is the same for two disks that hold the same
\* included paths and contents, whatever the mtimes and the other entries.
ScanDependsOnContentOnly ==
    /\ HashesOf(Build(merkle.disk, merkle.previous)) = HashesOf(Build(merkle.disk, NoNode))
    /\ IncludedContent(merkle.disk) = IncludedContent(merkle.scanned)
          => HashesOf(Build(merkle.disk, NoNode)) = HashesOf(Build(merkle.scanned, NoNode))

\* C17: the same, for a previous tree in which every file node that has the
\* path, mtime and size of a present file carries the hash of its bytes.
ScanDependsOnContentAndPrior ==
    /\ PriorAgrees(merkle.previous, merkle.disk)
          => HashesOf(Build(merkle.disk, merkle.previous)) = HashesOf(Build(merkle.disk, NoNode))
    /\ IncludedContent(merkle.disk) = IncludedContent(merkle.scanned)
          => HashesOf(Build(merkle.disk, NoNode)) = HashesOf(Build(merkle.scanned, NoNode))

\* since the scan an included file got another mtime and the entries that
\* are not included changed, the included paths and contents stayed
SameContentOtherDisk ==
    /\ merkle.previous # NoNode
    /\ IncludedContent(merkle.disk) = IncludedContent(merkle.scanned)
    /\ \E p \in DOMAIN IncludedContent(merkle.disk) :
          merkle.disk[p].mtime # merkle.scanned[p].mtime
    /\ DOMAIN merkle.disk # DOMAIN merkle.scanned
    /\ HashesOf(Build(merkle.disk, merkle.previous)) = HashesOf(merkle.previous)

\* the manifest records file p with the mtime it has now and with a hash
\* that is not the hash of its bytes: the content changed, the mtime stayed
ContentChangedMtimeKept(p) ==
    /\ is_initialized
    /\ p \in TreeFiles(manifest.tree) \cap DOMAIN fs
    /\ manifest.tree.children[p].mtime = fs[p].mtime
    /\ manifest.tree.children[p].hash # ComputeFileHash(fs[p].content)

\* the scan with the manifest's tree hashes the bytes of p, the diff and a
\* starting non-forced run list p as modified, the oracle reports p stale
ChangeIsSeen(p) ==
    LET new_tree == BuildTree(fs, manifest.tree)
    IN /\ new_tree.children[p].hash = ComputeFileHash(fs[p].content)
       /\ \A diff \in Compare(manifest.tree, new_tree) : p \in Range(diff.modified)
       /\ \A r \in Callers :
             (run[r].pc = "scanned" /\ ~run[r].force) => p \in Range(run[r].diff.modified)
       /\ \A staleness \in CheckStaleness(manifest, fs) :
             staleness.is_stale /\ p \in Range(staleness.stale_files)

\* the scan with the manifest's tree takes the recorded hash for p, and
\* neither the diff nor a starting non-forced run lists p
ChangeIsMissed(p) ==
    LET new_tree == BuildTree(fs, manifest.tree)
    IN /\ new_tree.children[p].hash = manifest.tree.children[p].hash
       /\ \A diff \in Compare(manifest.tree, new_tree) : p \notin DiffPaths(diff)
       /\ \A r \in Callers :
             (run[r].pc = "scanned" /\ ~run[r].force) => p \notin DiffPaths(run[r].diff)
       /\ \A staleness \in CheckStaleness(manifest, fs) : p \notin Range(staleness.stale_files)

\* C18 as stated: when the content of a file changed and its mtime stayed,
\* the next scan with the prior tree hashes the file anew, the diff reports
\* it modified, index() takes it up and the oracle reports stale.
MtimeKeptChangeIsSeen ==
    \A p \in Paths : ContentChangedMtimeKept(p) => ChangeIsSeen(p)

\* C18: when the content of a file changed and its mtime stayed, the change
\* is seen if the size changed as well; if the size stayed too, the scan
\* with the prior tree reuses the prior hash and the file is not reported.
MtimeKeptChangeIsSeenBySize ==
    \A p \in Paths :
        ContentChangedMtimeKept(p)
            => IF manifest.tree.children[p].size # FileSize(fs[p].content)
               THEN ChangeIsSeen(p)
               ELSE ChangeIsMissed(p)

\* a non-forced run has scanned a tree in which a file got a second line
\* while its mtime stayed, and lists it as modified
LongerFileSeen ==
    \E r \in Callers, p \in Paths :
        /\ run[r].pc = "scanned" /\ ~run[r].force
        /\ ContentChangedMtimeKept(p)
        /\ manifest.tree.children[p].size # FileSize(fs[p].content)
        /\ p \in Range(run[r].diff.modified)

\* C19: when a run has completed and no file was added, changed or removed
\* since, the oracle reports is_stale = false with no stale file and a
\* search carries no warning, whether the project holds files or not.
FreshAfterIndex ==
    (AllIdle /\ last \in {"indexed", "forced"})
        => \A staleness \in CheckStaleness(manifest, fs) :
              /\ ~staleness.is_stale
              /\ staleness.stale_files = <<>>
              /\ SearchWarning(staleness) = "None"

\* the paths in which the files differ from what the tree records
ChangedSince(tree, files) ==
    {p \in TreeFiles(tree) \cup DOMAIN files :
        \/ p \notin TreeFiles(tree)
        \/ p \notin DOMAIN files
        \/ tree.children[p].hash # ComputeFileHash(files[p].content)}

\* C20: when a file was added, modified or deleted since the manifest was
\* written, the oracle reports is_stale = true and stale_files holds the
\* paths of the diff's three lists, so it is not empty and names each
\* changed file.
StaleFilesNameChanges ==
    (AllIdle /\ is_initialized /\ last = "edited" /\ ChangedSince(manifest.tree, fs) # {})
        => \A staleness \in CheckStaleness(manifest, fs) :
              /\ staleness.is_stale
              /\ \E diff \in Compare(manifest.tree, BuildTree(fs, manifest.tree)) :
                    Range(staleness.stale_files) = DiffPaths(diff)
              /\ staleness.stale_files # <<>>
              /\ ChangedSince(manifest.tree, fs) \subseteq Range(staleness.stale_files)

\* the directory nodes of a tree each have an included file of the disk
\* below them
DirectoriesHoldFiles(tree, disk) ==
    \A q \in Places :
        NodeAt(tree, q).type = "directory"
            => \E p \in DOMAIN IncludedContent(disk) :
                  /\ Len(p) > Len(q) /\ SubSeq(p, 1, Len(q)) = q
                  /\ NodeAt(tree, p).type = "file"

\* C29: a scan of the present disk, with or without the previous tree, has
\* a root node whenever the disk holds an included file, whatever the name
\* of the project directory; it is null only when there is none, and every
\* directory node has an included file below it.
RootEmittedUnlessEmpty ==
    \A new \in ScansOf(merkle) :
        /\ (new = NoNode) <=> (DOMAIN IncludedContent(merkle.disk) = {})
        /\ DirectoriesHoldFiles(new, merkle.disk)

\* C30: the files of a scan of the present disk, with or without the
\* previous tree, are exactly the included files of the disk: no link and
\* under no linked directory, no excluded name below the root, an included
\* extension, no NUL byte, readable.
ScanHoldsIncludedFiles ==
    \A new \in ScansOf(merkle) : FilesOf(new) = DOMAIN IncludedContent(merkle.disk)

\* the file a run is about to process cannot be processed: it is gone, or
\* its bytes do not decode
FileFails(r) ==
    /\ run[r].pc = "process"
    /\ LET filepath == FilesToProcess(run[r].diff)[run[r].i]
       IN filepath \in DOMAIN fs => ReadText(fs[filepath].content) # "ok"

\* C27: when a file of new or modified cannot be processed, the step that
\* meets it stores nothing, adds nothing to the counters and leaves the run
\* going, at the next file or at the manifest write.
FileFailureIsConfined ==
    [][\A r \in Callers :
          (FileFails(r) /\ last' # "interrupted")
              => /\ run'[r].pc \in {"process", "manifest"}
                 /\ run'[r].stats = run[r].stats
                 /\ chunks' = chunks]_vars

\* C28: no run goes on after a store operation of its own failed: the
\* filter of every delete it has made for a file was well formed.
NoStoreFailureIgnored ==
    \A r \in Callers :
        \A k \in DOMAIN hist[r].log :
            hist[r].log[k][1] \in {"replace", "delete"}
                => FilepathFilterParses(hist[r].log[k][2])


\* ------------------------------------------------ searcher and tool surface
\* the calls of a search that embed the query or query the store
QueryCalls == {"embed_single", "search_vector", "create_fts_index", "search_fts", "to_arrow"}

Made(calls) == {calls[i] : i \in DOMAIN calls}

IsSearch(response) == response.op \in {"run_search", "search_code"}

\* C21: search in every mode, fuzzy_find, get_file_context, get_stale_status,
\* status and files leave every row of the chunk table, every entry of the
\* embedding cache and the manifest as they were.
ReadersOnlyRead ==
    [][(server.response.op = "none" /\ server'.response.op \in ReadOps)
          => /\ chunks' = chunks
             /\ cache' = cache
             /\ manifest' = manifest]_vars

\* a full-text search has run on a populated store, creating its index
ReaderActedOnRows ==
    /\ server.response.op = "search_code"
    /\ server.response.raised = "none"
    /\ "create_fts_index" \in Made(server.response.calls)
    /\ CountChunks(chunks) > 1
    /\ cache # EmptyBag
    /\ manifest.tree # NoNode

\* C22: search() raises SearchError when the query without its surrounding
\* whitespace is empty or the chunk table holds no row, whatever the mode,
\* having embedded nothing and queried nothing; it returns no result then.
SearchErrorBeforeAnyQuery ==
    LET r == server.response
    IN IsSearch(r) =>
          LET blank == \A i \in DOMAIN r.args.query : r.args.query[i] \in Whitespace
          IN (blank \/ CountChunks(chunks) = 0)
                => /\ r.raised = "SearchError"
                   /\ r.results = <<>>
                   /\ r.search_type = ""
                   /\ Made(r.calls) \cap QueryCalls = {}

\* a fuzzy search for a query of whitespace on a populated store
BlankFuzzyQueryRaised ==
    /\ server.response.op = "search_code"
    /\ server.response.args.search_type = "fuzzy"
    /\ server.response.args.query = <<" ", "\t">>
    /\ CountChunks(chunks) > 0
    /\ server.response.raised = "SearchError"

\* the calls a mode makes to the embedder and the store
ModeRan(search_type, calls) ==
    /\ ("to_arrow" \in Made(calls)) <=> search_type = "fuzzy"
    /\ ("embed_single" \in Made(calls)) <=> search_type \in {"vector", "hybrid"}
    /\ ("search_vector" \in Made(calls)) <=> search_type \in {"vector", "hybrid"}
    /\ ("search_fts" \in Made(calls)) <=> search_type \in {"fts", "hybrid"}

\* C23: fuzzy=true gives fuzzy whatever the weight; otherwise a weight <= 0
\* gives vector, a weight >= 1 gives fts and a weight between them hybrid;
\* the reported search_type is the mode that ran; search_code with vector,
\* bm25 or fuzzy gives vector, fts or fuzzy whatever weight is passed.
ModeSelection ==
    LET r == server.response
    IN /\ (r.op = "run_search" /\ r.raised = "none")
          => /\ r.args.fuzzy => r.search_type = "fuzzy"
             /\ (~r.args.fuzzy /\ r.args.bm25_weight <= 0) => r.search_type = "vector"
             /\ (~r.args.fuzzy /\ r.args.bm25_weight >= One) => r.search_type = "fts"
             /\ (~r.args.fuzzy /\ 0 < r.args.bm25_weight /\ r.args.bm25_weight < One)
                   => r.search_type = "hybrid"
       /\ (r.op = "search_code" /\ r.raised = "none")
          => /\ r.args.search_type = "vector" => r.search_type = "vector"
             /\ r.args.search_type = "bm25" => r.search_type = "fts"
             /\ r.args.search_type = "fuzzy" => r.search_type = "fuzzy"
       /\ (IsSearch(r) /\ r.raised = "none") => ModeRan(r.search_type, r.calls)

\* search_code ran a vector search although the weight passed was above 1,
\* and a full-text search although it was below 0
VectorDespiteWeight ==
    /\ server.response.op = "search_code"
    /\ server.response.raised = "none"
    /\ \/ /\ server.response.args.search_type = "vector"
          /\ server.response.args.bm25_weight > One
          /\ server.response.search_type = "vector"
          /\ server.response.results # <<>>
       \/ /\ server.response.args.search_type = "bm25"
          /\ server.response.args.bm25_weight < 0
          /\ server.response.search_type = "fts"
          /\ server.response.results # <<>>

\* the sum of RrfUnit / (60 + rank) over the 1-based ranks at which the list
\* holds the id
RECURSIVE RankSum(_, _, _)
RankSum(results, id, rank) ==
    IF rank > Len(results) THEN 0
    ELSE (IF results[rank].id = id THEN RrfUnit \div (60 + rank) ELSE 0)
            + RankSum(results, id, rank + 1)

IdsOf(results) == {results[i].id : i \in DOMAIN results}

\* C24: a hybrid search whose two lists are both non-empty returns each id
\* of their union at most once, scored by the sum of 1/(60 + rank) over the
\* lists holding it, sorted by score in non-increasing order, at most limit
\* results; bm25_weight changes neither scores nor order.
HybridIsRankFusion ==
    LET r == server.response
        limit == IF r.op = "run_search" THEN r.args.limit ELSE r.args.top_k
    IN (IsSearch(r) /\ r.search_type = "hybrid"
           /\ r.vector_results # <<>> /\ r.fts_results # <<>>)
          => /\ \A i, j \in DOMAIN r.results : r.results[i].id = r.results[j].id => i = j
             /\ IdsOf(r.results) \subseteq IdsOf(r.vector_results) \cup IdsOf(r.fts_results)
             /\ \A i \in DOMAIN r.results :
                   r.results[i].score =
                       <<"rrf", RankSum(r.vector_results, r.results[i].id, 1)
                                   + RankSum(r.fts_results, r.results[i].id, 1)>>
             /\ \A i, j \in DOMAIN r.results :
                   i < j => r.results[i].score[2] >= r.results[j].score[2]
             /\ Len(r.results) <= limit
             /\ \A w \in Weights :
                   r.results = HybridSearch(r.vector_results, r.fts_results, limit, w)

\* the fusion put a row found by both searches before the nearest row
FusionReordered ==
    /\ IsSearch(server.response)
    /\ server.response.search_type = "hybrid"
    /\ Len(server.response.vector_results) > Len(server.response.fts_results)
    /\ server.response.fts_results # <<>>
    /\ Len(server.response.results) = 2
    /\ server.response.results[1].id # server.response.vector_results[1].id
    /\ server.response.results[1].score[2] > server.response.results[2].score[2]

\* C25: every operation of the tool surface returns a structured result
\* naming the error whenever the engine raises; no exception leaves it.
NoExceptionEscapes ==
    server.response.op \in ToolOps => server.response.raised = "none"

\* C26: search_code called with a mode outside hybrid, vector, bm25 and
\* fuzzy yields an error, the one for an invalid query, and runs no search:
\* no mode is selected and no result is returned.
UnknownModeIsInvalid ==
    LET r == server.response
    IN (r.op = "search_code"
           /\ r.args.search_type \notin {"hybrid", "vector", "bm25", "fuzzy"})
          => /\ r.raised # "none"
             /\ r.search_type = ""
             /\ r.results = <<>>


LimitOf(response) ==
    IF response.op = "run_search" THEN response.args.limit ELSE response.args.top_k

Least(a, b) == IF a < b THEN a ELSE b

\* C34: a hybrid search queries the vector and the full-text search each
\* with fetch_k = 3 * limit; when exactly one list is empty it returns the
\* first limit results of the other in that list's order, and when both are
\* empty it returns nothing.
HybridFallsBack ==
    LET r == server.response
    IN (IsSearch(r) /\ r.search_type = "hybrid")
          => /\ r.fetch_k = 3 * LimitOf(r)
             /\ Len(r.vector_results) = Least(3 * LimitOf(r), CountChunks(chunks))
             /\ Len(r.fts_results) <= 3 * LimitOf(r)
             /\ (r.fts_results = <<>> /\ r.vector_results # <<>>)
                   => r.results = [i \in 1..Least(LimitOf(r), Len(r.vector_results)) |->
                                      r.vector_results[i]]
             /\ (r.vector_results = <<>> /\ r.fts_results # <<>>)
                   => r.results = [i \in 1..Least(LimitOf(r), Len(r.fts_results)) |->
                                      r.fts_results[i]]
             /\ (r.vector_results = <<>> /\ r.fts_results = <<>>) => r.results = <<>>

\* the full-text search found nothing and the nearest rows were cut at limit
VectorListCutAtLimit ==
    /\ IsSearch(server.response)
    /\ server.response.search_type = "hybrid"
    /\ server.response.fts_results = <<>>
    /\ Len(server.response.vector_results) > LimitOf(server.response)
    /\ Len(server.response.results) = LimitOf(server.response)

\* C35: a fuzzy search returns exactly the chunks whose name is not "" and
\* whose similarity ratio to the query, both lowercased, is above 0.5, sorted
\* by ratio in non-increasing order and cut at limit; a chunk named "" or of
\* ratio exactly 0.5 is never returned.
FuzzyKeepsAboveHalf ==
    LET r == server.response
        ratio(name) == Ratio(LowerAll(r.args.query), Lower(name))
        kept == {c \in Copies(chunks) : c[1].name # "" /\ ratio(c[1].name) > 50}
    IN (IsSearch(r) /\ r.search_type = "fuzzy")
          => /\ Len(r.results) = Least(LimitOf(r), Cardinality(kept))
             /\ \A i \in DOMAIN r.results :
                   /\ r.results[i].name # ""
                   /\ r.results[i].score = <<"ratio", ratio(r.results[i].name)>>
                   /\ r.results[i].score[2] > 50
             /\ \A id \in IdsOf(r.results) :
                   Cardinality({i \in DOMAIN r.results : r.results[i].id = id})
                      <= Cardinality({c \in kept : c[1].id = id})
             /\ \A i, j \in DOMAIN r.results :
                   i < j => r.results[i].score[2] >= r.results[j].score[2]
             /\ \A c \in kept, i \in DOMAIN r.results :
                   c[1].id \notin IdsOf(r.results) => ratio(c[1].name) <= r.results[i].score[2]

\* a fuzzy search over a store holding a module chunk named "" returned
\* fewer chunks than pass the threshold
FuzzyCutAtLimit ==
    /\ IsSearch(server.response)
    /\ server.response.search_type = "fuzzy"
    /\ \E row \in BagToSet(chunks) : row.name = ""
    /\ server.response.results # <<>>
    /\ Len(server.response.results)
          < Cardinality({c \in Copies(chunks) :
                c[1].name # ""
                   /\ Ratio(LowerAll(server.response.args.query), Lower(c[1].name)) > 50})


\* C38: the staleness answer of a running server is the answer for the
\* manifest now on disk: after another process has completed index() the
\* server's get_stale_status and its search warning are those of that
\* manifest, with no restart and no call of its own index tool.
StalenessRefersToDisk ==
    LET r == server.response
    IN /\ r.op = "get_stale_status"
          => \E staleness \in CheckStaleness(manifest, fs) :
                /\ r.data.is_stale = staleness.is_stale
                /\ r.message = staleness.message
       /\ (r.op = "search_code" /\ r.raised = "none")
          => \E staleness \in CheckStaleness(manifest, fs) :
                r.warning = SearchWarning(staleness)


\* C36: after any sequence of index() runs the embedding cache holds at most
\* one entry per content_hash, also when one file holds several chunks of
\* the same text that all miss the cache in one batch.
OneCacheEntryPerHash ==
    AllIdle =>
       \A e \in BagToSet(cache) :
          /\ CopiesIn(e, cache) = 1
          /\ \A other \in BagToSet(cache) : other.content_hash = e.content_hash => other = e


\* C37: when a run reaches its manifest write, every row of the chunk table
\* whose filepath is a file of the tree the run writes carries that file's
\* hash of the tree, also after interrupted runs and after scans that took
\* a hash from the previous tree.  Only the rows of files whose names hold
\* no quote are examined, so that no delete filter decides the outcome.
RowHashesMatchTree ==
    \A r \in Callers :
        Finished(r) =>
            \A row \in BagToSet(chunks) :
                (row.filepath \in {PathA, PathB} /\ row.filepath \in TreeFiles(run[r].new_tree))
                    => row.file_hash = run[r].new_tree.children[row.filepath].hash

\* ----------------------------------------------- the tree in the manifest
\* an optional field of a MerkleNode holds no value or one value
None == <<>>

Some(v) == <<v>>

\* the MerkleNode objects that _build_node constructs for a scanned tree:
\* a file is given size and mtime, a directory is given its children
RECURSIVE MerkleNode(_)
MerkleNode(node) ==
    [hash |-> node.hash, type |-> node.type, path |-> node.path,
     children |-> IF node.type = "directory"
                  THEN [n \in DOMAIN node.children |-> MerkleNode(node.children[n])]
                  ELSE <<>>,
     size |-> IF node.type = "file" THEN Some(node.size) ELSE None,
     mtime |-> IF node.type = "file" THEN Some(node.mtime) ELSE None]

\* MerkleTree(root=...); a tree without files has no root
MerkleTree(node) == IF node = NoNode THEN [root |-> None] ELSE [root |-> Some(MerkleNode(node))]

RECURSIVE ToDict(_)
ToDict(self) ==
    IF self.type = "file"
    THEN [hash |-> self.hash, type |-> self.type, path |-> self.path,
          size |-> self.size, mtime |-> self.mtime]
    ELSE [hash |-> self.hash, type |-> self.type, path |-> self.path,
          children |-> [n \in DOMAIN self.children |-> ToDict(self.children[n])]]

\* a lookup that finds no key
DictGetNothing(data, key) == None

\* data.get(key)
DictGet(data, key) == IF key \in DOMAIN data THEN data[key] ELSE None

RECURSIVE FromDict(_)
FromDict(data) ==
    [hash |-> data.hash, type |-> data.type, path |-> data.path,
     children |-> IF DictGet(data, "type") = "directory" /\ "children" \in DOMAIN data
                  THEN [n \in DOMAIN data.children |-> FromDict(data.children[n])]
                  ELSE <<>>,
     size |-> DictGet(data, "size"),
     mtime |-> DictGet(data, "mtime")]

\* MerkleTree.to_dict
TreeToDict(self) == IF self.root = None THEN None ELSE Some(ToDict(self.root[1]))

\* MerkleTree.from_dict
TreeFromDict(data) == IF data = None THEN [root |-> None] ELSE [root |-> Some(FromDict(data[1]))]

\* C33: the tree of a scan, written into the manifest and read back, is the
\* tree of the scan in the hash, type, path, size, mtime and children of
\* every node; a tree without a root comes back without a root.
TreeRoundTrips ==
    TreeFromDict(TreeToDict(MerkleTree(merkle.previous))) = MerkleTree(merkle.previous)

\* a scanned tree with a file below a directory below the root came back
NestedTreeCameBack ==
    /\ merkle.previous # NoNode
    /\ \E d \in DOMAIN merkle.previous.children :
          /\ merkle.previous.children[d].type = "directory"
          /\ \E f \in DOMAIN merkle.previous.children[d].children :
                LET back == TreeFromDict(TreeToDict(MerkleTree(merkle.previous))).root[1]
                IN /\ back.children[d].children[f].type = "file"
                   /\ back.children[d].children[f].mtime # None
                   /\ back.children[d].size = None


\* ------------------------------------------------- the chunker on a tree
\* the statements of a source file, nested; MaxNodes of them at most
\* a statement: a def, a class or an if with a body, a decorator line before
\* a def or a class, or a simple statement
Statement(kind, decorated, body) ==
    [kind |-> kind, decorated |-> decorated, body |-> body,
     name |-> IF kind = "def" THEN "f" ELSE IF kind = "class" THEN "C" ELSE ""]

\* the statements with a body, with and without a decorator line
Compound ==
    {<<"def", FALSE>>, <<"def", TRUE>>, <<"class", FALSE>>, <<"class", TRUE>>, <<"if", FALSE>>}

\* the files of n statements
RECURSIVE Sources(_)
Sources(n) ==
    IF n = 0 THEN {<<>>}
    ELSE UNION {{<<first>> \o rest :
                    first \in {Statement(form[1], form[2], body) :
                                  form \in Compound, body \in Sources(k - 1)}
                              \cup (IF k = 1 THEN {Statement("pass", FALSE, <<>>)} ELSE {}),
                    rest \in Sources(n - k)} : k \in 1..n}

\* the text of the file, line by line; a line is named by the place of its
\* statement and by what it holds
RECURSIVE Render(_, _)
Render(body, place) ==
    Flatten([i \in DOMAIN body |->
                (IF body[i].decorated THEN <<<<Append(place, i), "@">>>> ELSE <<>>)
                    \o <<<<Append(place, i), body[i].kind>>>>
                    \o Render(body[i].body, Append(place, i))])

\* the node of tree-sitter's Python grammar for a statement starting at a
\* line: a decorator line, the header line (with `pass` on it when the body
\* is empty) and the lines of the body
RECURSIVE ParseStatement(_, _)
ParseStatement(stmt, start) ==
    LET Leaf(type, line) ==
            [type |-> type, name |-> "", start_line |-> line, end_line |-> line, children |-> <<>>]
        header == start + (IF stmt.decorated THEN 1 ELSE 0)
        end == header + Len(Render(stmt.body, <<>>))
        Offset(i) == header + 1 + Len(Render(SubSeq(stmt.body, 1, i - 1), <<>>))
        block == [type |-> "block", name |-> "",
                  start_line |-> IF stmt.body = <<>> THEN header ELSE header + 1,
                  end_line |-> end,
                  children |-> IF stmt.body = <<>> THEN <<Leaf("pass_statement", header)>>
                               ELSE [i \in DOMAIN stmt.body |->
                                        ParseStatement(stmt.body[i], Offset(i))]]
        definition == [type |-> CASE stmt.kind = "def" -> "function_definition"
                                  [] stmt.kind = "class" -> "class_definition"
                                  [] OTHER -> "if_statement",
                       name |-> stmt.name, start_line |-> header, end_line |-> end,
                       children |-> <<block>>]
    IN IF stmt.kind = "pass" THEN Leaf("pass_statement", start)
       ELSE IF stmt.decorated
            THEN [type |-> "decorated_definition", name |-> "", start_line |-> start,
                  end_line |-> end, children |-> <<Leaf("decorator", start), definition>>]
            ELSE definition

\* parser.parse(content).root_node
Parse(source) ==
    [type |-> "module", name |-> "", start_line |-> 1, end_line |-> Len(Render(source, <<>>)),
     children |-> [i \in DOMAIN source |->
                      ParseStatement(source[i],
                                     1 + Len(Render(SubSeq(source, 1, i - 1), <<>>)))]]

\* _get_python_name: the text of the identifier child
GetPythonName(node) == node.name

\* "method" if parent_class else "function"
ChunkType(parent_class) ==
    IF parent_class # None /\ parent_class # Some("") THEN "method" ELSE "function"

\* Chunk(...) of a node: the text between its first and its last byte
ChunkOf(content, node, type) ==
    [text |-> SubSeq(content, node.start_line, node.end_line), type |-> type,
     name |-> GetPythonName(node), start_line |-> node.start_line, end_line |-> node.end_line]

RECURSIVE VisitNode(_, _, _)
VisitNode(content, node, parent_class) ==
    IF node.type = "function_definition"
    THEN <<ChunkOf(content, node, ChunkType(parent_class))>>
    ELSE IF node.type = "class_definition"
    THEN <<ChunkOf(content, node, "class")>>
             \o Flatten([i \in DOMAIN node.children |->
                   IF node.children[i].type = "block"
                   THEN Flatten([j \in DOMAIN node.children[i].children |->
                                    VisitNode(content, node.children[i].children[j],
                                              Some(GetPythonName(node)))])
                   ELSE <<>>])
    ELSE Flatten([i \in DOMAIN node.children |->
                     VisitNode(content, node.children[i], parent_class)])

\* _chunk_python
ChunkPython(content, root_node) ==
    LET found == VisitNode(content, root_node, None)
    IN IF found = <<>>
       THEN <<[text |-> content, type |-> "module", name |-> "", start_line |-> 1,
               end_line |-> Len(content)]>>
       ELSE found

\* a Python file of some statements is handed to the chunker
InitChunker ==
    /\ chunker \in {[NoChunker EXCEPT !.source = source, !.content = Render(source, <<>>)] :
                       source \in UNION {Sources(n) : n \in 1..MaxNodes}}
    /\ merkle = NoScan
    /\ server = NoServer
    /\ tui = NoTui
    /\ fs = NoFiles
    /\ manifest = CreateEmptyManifest(0)
    /\ chunks = EmptyBag
    /\ cache = EmptyBag
    /\ run = [r \in Callers |-> IdleRun]
    /\ clock = 0
    /\ edits = 0
    /\ hist = [r \in Callers |-> NoHist]
    /\ last = "none"
    /\ aborted = FALSE
    /\ is_initialized = TRUE

\* chunk_file on a file with a supported extension
ChunkFileOfSource ==
    /\ ~chunker.chunked
    /\ chunker' = [chunker EXCEPT !.chunks = ChunkPython(chunker.content, Parse(chunker.source)),
                                  !.chunked = TRUE]
    /\ UNCHANGED <<fs, manifest, chunks, cache, run, clock, edits, hist, last, aborted,
                   is_initialized, merkle, server, tui>>

NextChunker == ChunkFileOfSource

SpecChunker == InitChunker /\ [][NextChunker]_vars


\* the definitions of a file in source order, each with its kind: a def in
\* no def and no class is a function, a def in the body of a class is a
\* method, a class is a class wherever it stands
RECURSIVE Definitions(_, _)
Definitions(body, scope) ==
    Flatten([i \in DOMAIN body |->
                CASE body[i].kind = "def" ->
                        (IF scope = "module" THEN <<<<"function", body[i].name>>>>
                         ELSE IF scope = "class" THEN <<<<"method", body[i].name>>>>
                         ELSE <<>>) \o Definitions(body[i].body, "def")
                  [] body[i].kind = "class" ->
                        <<<<"class", body[i].name>>>> \o Definitions(body[i].body, "class")
                  [] OTHER -> Definitions(body[i].body, scope)])

\* C31: the chunks of a file with a definition are, in source order, one
\* function chunk per def outside every def and class, one class chunk per
\* class and one method chunk per def in the body of a class, nested or not,
\* and no two chunks have the same text and the same lines.
ChunksAreTheDefinitions ==
    (chunker.chunked /\ Definitions(chunker.source, "module") # <<>>)
        => /\ [i \in DOMAIN chunker.chunks |-> <<chunker.chunks[i].type, chunker.chunks[i].name>>]
                 = Definitions(chunker.source, "module")
           /\ \A i, j \in DOMAIN chunker.chunks : chunker.chunks[i] = chunker.chunks[j] => i = j

\* the lines of every definition of a tree, from its first decorator line
RECURSIVE DefinitionSpans(_)
DefinitionSpans(node) ==
    LET below == UNION {DefinitionSpans(node.children[i]) : i \in DOMAIN node.children}
    IN IF node.type = "decorated_definition"
       THEN {<<node.start_line, node.end_line>>}
                \cup UNION {DefinitionSpans(node.children[2].children[i]) :
                               i \in DOMAIN node.children[2].children}
       ELSE IF node.type \in {"function_definition", "class_definition"}
       THEN {<<node.start_line, node.end_line>>} \cup below
       ELSE below

\* C32: every function, method and class chunk spans the lines of a whole
\* definition, from its first decorator line to the last line of its body,
\* its text is those lines, and 1 <= start_line <= end_line.
ChunkCoversDecorators ==
    chunker.chunked =>
        \A i \in DOMAIN chunker.chunks :
            LET chunk == chunker.chunks[i]
            IN chunk.type # "module"
                  => /\ 1 <= chunk.start_line
                     /\ chunk.start_line <= chunk.end_line
                     /\ <<chunk.start_line, chunk.end_line>>
                            \in DefinitionSpans(Parse(chunker.source))
                     /\ chunk.text = SubSeq(chunker.content, chunk.start_line, chunk.end_line)


\* ------------------------------------------------------ the terminal app
\* MaxWorkers command workers are in flight at one time at most, and the
\* app is watched until MaxTime seconds after boot
\* PROVIDERS, LOCAL_MODELS and the options of the /remove selector
LocalModels == {"bge-small", "bge-base", "bge-large"}

Options(selector) ==
    CASE selector = "provider" -> {"local", "openai"}
      [] selector = "model" -> {"bge-base"}
      [] selector = "remove" -> {"yes", "no"}
      [] OTHER -> {}

\* the flow whose command or step mounts a selector
FlowOf(selector) == IF selector = "remove" THEN "remove" ELSE "init"

\* a task after a step, and the app after it
Out(t, u) == [t |-> t, u |-> u]

Done(t) == [t EXCEPT !.pc = "done"]

\* an exception that nothing catches ends the task
Raise(t, u, exception) == Out(Done(t), [u EXCEPT !.raised = exception])

\* _switch_to_selector, lines 181-183: mount() refuses a second #selector
MountSelector(t, u) ==
    IF u.selector # "none" THEN Raise(t, u, "DuplicateIds")
    ELSE Out([t EXCEPT !.pc = "selector_mount"], [u EXCEPT !.selector = t.widget])

\* _switch_to_selector, lines 174-179
RemoveInput(t, u) ==
    IF u.input THEN Out([t EXCEPT !.pc = "input_remove"], u) ELSE MountSelector(t, u)

\* _switch_to_selector up to its first await
SwitchToSelector(t, u) ==
    IF u.current_bottom_app = "Selector" /\ u.selector # "none"
    THEN Out([t EXCEPT !.pc = "old_selector_remove"], u)
    ELSE RemoveInput(t, u)

\* what the caller of _switch_to_input does when it returns
AfterSwitchToInput(t, u) ==
    CASE t.code = "complete_init" ->
            Out([t EXCEPT !.pc = "indexing"], [u EXCEPT !.is_initialized = TRUE])
      [] t.code = "remove" ->
            Out(Done(t), [u EXCEPT !.flow_state = NoFlow,
                                   !.is_initialized = IF t.value = "yes" THEN FALSE ELSE @])
      [] OTHER -> Out(Done(t), [u EXCEPT !.flow_state = NoFlow])

\* _switch_to_input, lines 199-201
MountInput(t, u) ==
    IF u.input THEN Raise(t, u, "DuplicateIds")
    ELSE Out([t EXCEPT !.pc = "input_mount"], [u EXCEPT !.input = TRUE, !.text = <<>>])

\* _switch_to_input up to its first await
SwitchToInput(t, u) ==
    IF u.current_bottom_app = "Input" THEN AfterSwitchToInput(t, u)
    ELSE IF u.selector # "none" THEN Out([t EXCEPT !.pc = "selector_remove"], u)
    ELSE MountInput(t, u)

\* _handle_init and _handle_remove up to their first await
StartWorker(t, u) ==
    IF t.code = "handle_init"
    THEN IF u.is_initialized /\ t.value # "--force" THEN Out(Done(t), u)
         ELSE SwitchToSelector([t EXCEPT !.widget = "provider"],
                               [u EXCEPT !.flow_state = [flow |-> "init", step |-> "provider"]])
    ELSE IF ~u.is_initialized THEN Out(Done(t), u)
         ELSE SwitchToSelector([t EXCEPT !.widget = "remove"],
                               [u EXCEPT !.flow_state = [flow |-> "remove", step |-> "None"]])

\* _handle_init_selection up to its first await
HandleInitSelection(t, u) ==
    CASE u.flow_state.step = "provider" ->
            IF t.value # "local" THEN SwitchToInput([t EXCEPT !.code = "clear"], u)
            ELSE SwitchToSelector([t EXCEPT !.code = "init_selection", !.widget = "model"],
                                  [u EXCEPT !.flow_state.step = "model"])
      [] u.flow_state.step = "model" ->
            IF t.value \notin LocalModels THEN SwitchToInput([t EXCEPT !.code = "clear"], u)
            ELSE SwitchToInput([t EXCEPT !.code = "complete_init"], u)
      [] OTHER -> Out(Done(t), u)

\* _on_option_selected up to its first await
OnOptionSelected(value, u) ==
    LET t == [NoTask EXCEPT !.value = value]
    IN CASE u.flow_state.flow = "init" -> HandleInitSelection(t, u)
         [] u.flow_state.flow = "remove" -> SwitchToInput([t EXCEPT !.code = "remove"], u)
         [] OTHER -> SwitchToInput([t EXCEPT !.code = "clear"], u)

\* a task goes on from the await it stopped at, up to its next await
Resume(t, u) ==
    CASE t.pc = "start" -> StartWorker(t, u)
      [] t.pc = "old_selector_remove" -> RemoveInput(t, [u EXCEPT !.selector = "none"])
      [] t.pc = "input_remove" -> MountSelector(t, [u EXCEPT !.input = FALSE])
      [] t.pc = "selector_mount" -> Out(Done(t), [u EXCEPT !.current_bottom_app = "Selector"])
      [] t.pc = "selector_remove" -> MountInput(t, [u EXCEPT !.selector = "none"])
      [] t.pc = "input_mount" ->
            AfterSwitchToInput(t, [u EXCEPT !.current_bottom_app = "Input"])
      [] t.pc = "indexing" -> Out(Done(t), [u EXCEPT !.flow_state = NoFlow])

\* the app runs, and its message pump is in no handler
Running == ~tui.exited /\ tui.raised = "none"

PumpIdle == tui.handler.pc = "done"

\* tui.interrupt tells how the latest step handled Ctrl+C, if it was one
AppStep(u) ==
    /\ tui' = [u EXCEPT !.interrupt = IF u.interrupt = tui.interrupt THEN NoInterrupt ELSE @]
    /\ UNCHANGED <<fs, manifest, chunks, cache, run, clock, edits, hist, last, aborted,
                   is_initialized, merkle, server, chunker>>

\* keys typed into the search input
TypeText(text) ==
    /\ Running /\ PumpIdle
    /\ tui.input
    /\ text # tui.text
    /\ AppStep([tui EXCEPT !.text = text])

\* Enter in the search input, then handle_command: run_worker(handler(args))
SubmitCommand(command, args) ==
    /\ Running /\ PumpIdle
    /\ tui.input
    /\ Len(tui.workers) < MaxWorkers
    /\ AppStep([tui EXCEPT !.text = <<>>,
                           !.workers = Append(@, [code |-> command, pc |-> "start",
                                                  value |-> args, widget |-> "none"])])

\* a command worker runs from one await to the next; a worker that ended is
\* no longer among the workers
WorkerStep(i) ==
    /\ Running
    /\ i \in DOMAIN tui.workers
    /\ tui.workers[i].pc # "done"
    /\ LET r == Resume(tui.workers[i], tui)
       IN AppStep([r.u EXCEPT !.workers = SelectSeq([@ EXCEPT ![i] = r.t],
                                                    LAMBDA t : t.pc # "done")])

\* Enter in the selector, then _on_option_selected
SelectOption(value) ==
    /\ Running /\ PumpIdle
    /\ tui.current_bottom_app = "Selector"
    /\ value \in Options(tui.selector)
    /\ LET r == OnOptionSelected(value, tui)
       IN AppStep([r.u EXCEPT !.handler = r.t])

\* Escape in the selector, then _on_selection_cancelled
CancelSelection ==
    /\ Running /\ PumpIdle
    /\ tui.current_bottom_app = "Selector"
    /\ tui.selector # "none"
    /\ LET r == SwitchToInput([NoTask EXCEPT !.code = "clear"], tui)
       IN AppStep([r.u EXCEPT !.handler = r.t])

\* the selection handler runs from one await to the next
HandlerStep ==
    /\ Running
    /\ tui.handler.pc # "done"
    /\ LET r == Resume(tui.handler, tui)
       IN AppStep([r.u EXCEPT !.handler = r.t])

\* action_interrupt
ActionInterrupt ==
    /\ Running /\ PumpIdle
    /\ LET seen == [text |-> tui.text, at |-> tui.now, ctrl_c_time |-> tui.ctrl_c_time,
                    timer |-> tui.ctrl_c_timer, outcome |-> "none"]
       IN IF ~tui.input
          THEN AppStep([tui EXCEPT !.raised = "NoMatches",
                                   !.interrupt = [seen EXCEPT !.outcome = "raised"]])
          ELSE IF Strip(tui.text) # <<>>
          THEN AppStep([tui EXCEPT !.text = <<>>, !.ctrl_c_time = tui.now,
                                   !.ctrl_c_timer = TRUE, !.timer_set = tui.now,
                                   !.interrupt = [seen EXCEPT !.outcome = "cleared"]])
          ELSE IF tui.now - tui.ctrl_c_time < 2
          THEN AppStep([tui EXCEPT !.exited = TRUE, !.ctrl_c_timer = FALSE,
                                   !.interrupt = [seen EXCEPT !.outcome = "quit"]])
          ELSE AppStep([tui EXCEPT !.ctrl_c_time = tui.now, !.ctrl_c_timer = TRUE,
                                   !.timer_set = tui.now,
                                   !.interrupt = [seen EXCEPT !.outcome = "armed"]])

\* _reset_ctrl_c_status, two seconds after the timer was set or later
ResetCtrlCStatus ==
    /\ Running
    /\ tui.ctrl_c_timer
    /\ tui.now >= tui.timer_set + 2
    /\ AppStep([tui EXCEPT !.ctrl_c_timer = FALSE, !.ctrl_c_time = 0])

\* a second passes
Tick ==
    /\ Running
    /\ tui.now < MaxTime
    /\ AppStep([tui EXCEPT !.now = @ + 1])

\* the app starts in a project that is initialized or not
InitTui ==
    /\ tui \in {[NoTui EXCEPT !.is_initialized = b] : b \in BOOLEAN}
    /\ chunker = NoChunker
    /\ merkle = NoScan
    /\ server = NoServer
    /\ fs = NoFiles
    /\ manifest = CreateEmptyManifest(0)
    /\ chunks = EmptyBag
    /\ cache = EmptyBag
    /\ run = [r \in Callers |-> IdleRun]
    /\ clock = 0
    /\ edits = 0
    /\ hist = [r \in Callers |-> NoHist]
    /\ last = "none"
    /\ aborted = FALSE
    /\ is_initialized = TRUE

NextTui ==
    \/ \E text \in {<<>>, <<" ">>, <<"q">>} : TypeText(text)
    \/ \E args \in {"", "--force"} : SubmitCommand("handle_init", args)
    \/ SubmitCommand("handle_remove", "")
    \/ \E i \in 1..MaxWorkers : WorkerStep(i)
    \/ \E value \in {"local", "openai", "bge-base", "yes", "no"} : SelectOption(value)
    \/ CancelSelection
    \/ HandlerStep
    \/ ActionInterrupt
    \/ ResetCtrlCStatus
    \/ Tick

SpecTui == InitTui /\ [][NextTui]_vars

\* C39: a mounted selector belongs to the flow that _flow_state names, and
\* when no selector is mounted the search input is, whatever the order in
\* which command workers and selection handlers run between their awaits.
SelectorBelongsToFlow ==
    Running =>
        /\ tui.selector # "none" => tui.flow_state.flow = FlowOf(tui.selector)
        /\ tui.selector = "none" => tui.input

\* C40: no Ctrl+C ends in an exception, with or without the search input;
\* on an input with text it clears the text and the app goes on, and it
\* quits only less than 2 seconds after a Ctrl+C whose timer has not fired.
InterruptIsHandled ==
    /\ tui.interrupt.outcome # "raised"
    /\ (tui.interrupt.outcome # "none" /\ Strip(tui.interrupt.text) # <<>>)
          => tui.interrupt.outcome = "cleared"
    /\ tui.interrupt.outcome = "quit"
          => /\ tui.interrupt.timer
             /\ tui.interrupt.at - tui.interrupt.ctrl_c_time < 2


====
